---- MODULE Spec2Model ----
(***************************************************************************)
(* A model of the XBRL fact extraction and comparison engine of            *)
(* src/(3)_xbrl_financial_analyzer.py (find_xbrl_instance_in_zip,          *)
(* classify_period, _parse_ixbrl, _parse_regular_xbrl,                     *)
(* build_financial_summary, detect_significant_changes,                    *)
(* calculate_profit_margins, download_xbrl_zip, process_single_xbrl and    *)
(* the batch loop of main).                                                *)
(*                                                                         *)
(* A Python str is modelled as a sequence of characters.  An ASCII         *)
(* character is the one-character string; a non-ASCII character is the     *)
(* string of its code point, "U+FF0C".  An element name, a namespace       *)
(* prefix or a tag name, whose characters no operation looks at, is a      *)
(* sequence of one item, <<"NetSales">>.  A Python float is modelled as    *)
(* the exact rational n/d in lowest terms; binary rounding and the range   *)
(* of a double are not modelled, and 0.0 and -0.0 (which Python compares   *)
(* equal) are one value.                                                   *)
(***************************************************************************)
EXTENDS Integers, Sequences, FiniteSets, TLC

VARIABLES
    pc,           \* which operation has run: "start", then the operation's name
    module_state, \* the module-level tables XBRL_LABEL_MAP and TSE_ELEMENT_MAP
    zip_entries,  \* zf.namelist() with zf.getinfo(name).file_size, in archive order
    located,      \* what find_xbrl_instance_in_zip returned
    calls,        \* two invocations of classify_period: <<context_ref, contexts>> each
    period_types, \* what each invocation returned, once it has run
    filename,     \* the name of the document handed to parse_xbrl_content
    content,      \* the document, as the tree lxml parses it to
    parsed_data,  \* the list parse_xbrl_content returned
    df,           \* the fact table handed to build_financial_summary
    summary_df,   \* the rows build_financial_summary returned
    threshold,    \* the threshold handed to analyze_significant_changes
    significant_df, \* the rows analyze_significant_changes returned
    margins_df,   \* the rows calculate_profit_margins returned
    xbrl_entries, \* the filings find_xbrl_links listed, in the order main visits them
    files,        \* what is at each zip_path of the save folder
    entry_no,     \* the index of the entry the loop of main is at
    attempts,     \* how the loop body ended for each entry visited in this run
    total_xbrl,   \* main's count of downloads
    total_analyzed, \* main's count of analyses
    runs,         \* how many times main has been started
    jobs          \* the invocations of the engine under way, one per filing

vars == <<pc, module_state, zip_entries, located, calls, period_types, filename, content, parsed_data,
          df, summary_df, threshold, significant_df, margins_df,
          xbrl_entries, files, entry_no, attempts, total_xbrl, total_analyzed, runs,
          jobs>>
locatorVars == <<zip_entries, located>>
periodVars == <<calls, period_types>>
extractVars == <<filename, content, parsed_data>>
summaryVars == <<df, summary_df>>
analyticsVars == <<threshold, significant_df, margins_df>>
mainVars == <<xbrl_entries, files, entry_no, attempts, total_xbrl, total_analyzed, runs>>

-----------------------------------------------------------------------------
(* Python str operations *)

UpperChars == <<"A","B","C","D","E","F","G","H","I","J","K","L","M",
                "N","O","P","Q","R","S","T","U","V","W","X","Y","Z">>
LowerChars == <<"a","b","c","d","e","f","g","h","i","j","k","l","m",
                "n","o","p","q","r","s","t","u","v","w","x","y","z">>

\* str.lower() on one character
LowerChar(c) ==
    IF \E i \in 1..26 : UpperChars[i] = c
    THEN LowerChars[CHOOSE i \in 1..26 : UpperChars[i] = c]
    ELSE c

\* str.lower()
Lower(s) == [i \in 1..Len(s) |-> LowerChar(s[i])]

\* sub in s
Contains(s, sub) ==
    \E i \in 0..(Len(s) - Len(sub)) : SubSeq(s, i + 1, i + Len(sub)) = sub

\* s.startswith(p)
StartsWith(s, p) == Len(p) <= Len(s) /\ SubSeq(s, 1, Len(p)) = p

\* s.endswith(p)
EndsWith(s, p) ==
    Len(p) <= Len(s) /\ SubSeq(s, Len(s) - Len(p) + 1, Len(s)) = p

\* s.replace(c, rep) for a one-character c
RECURSIVE Replace(_, _, _)
Replace(s, c, rep) ==
    IF s = <<>> THEN <<>>
    ELSE (IF Head(s) = c THEN rep ELSE <<Head(s)>>) \o Replace(Tail(s), c, rep)

\* {}
EmptyDict == [k \in {} |-> <<>>]

\* list.sort(key=lambda x: -x[1]): a stable sort by descending file_size
RECURSIVE InsertBySize(_, _)
InsertBySize(sorted, e) ==
    IF sorted = <<>> THEN <<e>>
    ELSE IF Head(sorted).file_size >= e.file_size
         THEN <<Head(sorted)>> \o InsertBySize(Tail(sorted), e)
         ELSE <<e>> \o sorted

RECURSIVE SortBySizeDesc(_)
SortBySizeDesc(list) ==
    IF list = <<>> THEN <<>>
    ELSE InsertBySize(SortBySizeDesc(SubSeq(list, 1, Len(list) - 1)),
                      list[Len(list)])

-----------------------------------------------------------------------------
(* find_xbrl_instance_in_zip *)

S_slash      == <<"/">>
S_ixbrl_htm  == <<"-","i","x","b","r","l",".","h","t","m">>
S_ixbrl_html == <<"-","i","x","b","r","l",".","h","t","m","l">>
S_xbrl       == <<".","x","b","r","l">>
S_attachment == <<"a","t","t","a","c","h","m","e","n","t">>
S_summary    == <<"s","u","m","m","a","r","y">>

\* lower.endswith('-ixbrl.htm') or lower.endswith('-ixbrl.html')
IsInlineName(lower) == EndsWith(lower, S_ixbrl_htm) \/ EndsWith(lower, S_ixbrl_html)

\* The list the loop appends an entry to: "attachment" (ixbrl_attachment),
\* "summary" (ixbrl_summary), "xbrl" (xbrl_files), or "skip" for none.
ListOf(name) ==
    LET lower == Lower(name) IN
    IF EndsWith(lower, S_slash) THEN "skip"
    ELSE IF IsInlineName(lower)
         THEN IF Contains(lower, S_attachment) THEN "attachment"
              ELSE IF Contains(lower, S_summary) THEN "summary"
              ELSE "attachment"
         ELSE IF EndsWith(lower, S_xbrl) THEN "xbrl"
         ELSE "skip"

EntriesOf(entries, list) == SelectSeq(entries, LAMBDA e : ListOf(e.name) = list)

NotFound == [found |-> FALSE, name |-> <<>>]
Found(name) == [found |-> TRUE, name |-> name]

LocatorIdle == zip_entries = <<>> /\ located = NotFound

\* BestOf without the sort: the first entry of the list in archive order
BestOfUnsorted(list) == list[1].name

\* list.sort(key=lambda x: -x[1]); best = list[0][0]
BestOf(list) == SortBySizeDesc(list)[1].name

\* find_xbrl_instance_in_zip falling back to the first entry of the archive
\* instead of returning (None, None)
find_xbrl_instance_guessing(entries) ==
    LET ixbrl_summary    == EntriesOf(entries, "summary")
        ixbrl_attachment == EntriesOf(entries, "attachment")
        xbrl_files       == EntriesOf(entries, "xbrl")
    IN  IF ixbrl_summary # <<>> THEN Found(BestOf(ixbrl_summary))
        ELSE IF ixbrl_attachment # <<>> THEN Found(BestOf(ixbrl_attachment))
        ELSE IF xbrl_files # <<>> THEN Found(BestOf(xbrl_files))
        ELSE IF entries # <<>> THEN Found(entries[1].name)
        ELSE NotFound

find_xbrl_instance_in_zip(entries) ==
    LET ixbrl_summary    == EntriesOf(entries, "summary")
        ixbrl_attachment == EntriesOf(entries, "attachment")
        xbrl_files       == EntriesOf(entries, "xbrl")
    IN  IF ixbrl_summary # <<>> THEN Found(BestOf(ixbrl_summary))
        ELSE IF ixbrl_attachment # <<>> THEN Found(BestOf(ixbrl_attachment))
        ELSE IF xbrl_files # <<>> THEN Found(BestOf(xbrl_files))
        ELSE NotFound

-----------------------------------------------------------------------------
(* classify_period *)

S_forecast           == <<"f","o","r","e","c","a","s","t">>
S_nextaccumulated    == <<"n","e","x","t","a","c","c","u","m","u","l","a","t","e","d">>
S_prior              == <<"p","r","i","o","r">>
S_prioryear          == <<"p","r","i","o","r","y","e","a","r">>
S_prior1year         == <<"p","r","i","o","r","1","y","e","a","r">>
S_prioraccumulated   == <<"p","r","i","o","r","a","c","c","u","m","u","l","a","t","e","d">>
S_priorquarter       == <<"p","r","i","o","r","q","u","a","r","t","e","r">>
S_prior1quarter      == <<"p","r","i","o","r","1","q","u","a","r","t","e","r">>
S_current            == <<"c","u","r","r","e","n","t">>
S_currentyear        == <<"c","u","r","r","e","n","t","y","e","a","r">>
S_currentaccumulated == <<"c","u","r","r","e","n","t","a","c","c","u","m","u","l","a","t","e","d">>
S_instant            == <<"i","n","s","t","a","n","t">>

\* The period labels the function returns, written by code point.
Yosou        == <<"U+4E88","U+60F3">>                   \* forecast
Zenki        == <<"U+524D","U+671F">>                   \* prior period
ZenkiMatsu   == <<"U+524D","U+671F","U+672B">>          \* prior period end
ZenShihanki  == <<"U+524D","U+56DB","U+534A","U+671F">> \* prior quarter
Touki        == <<"U+5F53","U+671F">>                   \* current period
ToukiMatsu   == <<"U+5F53","U+671F","U+672B">>          \* current period end
TouShihanki  == <<"U+5F53","U+56DB","U+534A","U+671F">> \* current quarter

\* classify_period giving up on an id the context table does not hold
classify_period_resolved_only(context_ref, contexts) ==
    LET cr == Lower(context_ref) IN
    IF context_ref \notin DOMAIN contexts THEN context_ref
    ELSE IF Contains(cr, S_forecast) \/ Contains(cr, S_nextaccumulated) THEN Yosou
    ELSE IF Contains(cr, S_prior)
         THEN (IF Contains(cr, S_instant) THEN ZenkiMatsu ELSE Zenki)
    ELSE IF Contains(cr, S_current)
         THEN (IF Contains(cr, S_instant) THEN ToukiMatsu ELSE Touki)
    ELSE context_ref

\* classify_period with the prior-quarter rule tried before the prior rule
classify_period_quarter_first(context_ref, contexts) ==
    LET cr == Lower(context_ref) IN
    IF Contains(cr, S_forecast) \/ Contains(cr, S_nextaccumulated) THEN Yosou
    ELSE IF Contains(cr, S_priorquarter) \/ Contains(cr, S_prior1quarter)
         THEN ZenShihanki
    ELSE IF \/ StartsWith(cr, S_prior)
            \/ Contains(cr, S_prioryear)
            \/ Contains(cr, S_prior1year)
            \/ Contains(cr, S_prioraccumulated)
         THEN (IF Contains(cr, S_instant) THEN ZenkiMatsu ELSE Zenki)
    ELSE IF \/ StartsWith(cr, S_current)
            \/ Contains(cr, S_currentyear)
            \/ Contains(cr, S_currentaccumulated)
         THEN (IF Contains(cr, S_instant) THEN ToukiMatsu ELSE Touki)
    ELSE IF Contains(cr, S_prior)
         THEN (IF Contains(cr, S_instant) THEN ZenkiMatsu ELSE Zenki)
    ELSE IF Contains(cr, S_current)
         THEN (IF Contains(cr, S_instant) THEN ToukiMatsu ELSE Touki)
    ELSE context_ref

classify_period(context_ref, contexts) ==
    LET cr == Lower(context_ref) IN
    IF Contains(cr, S_forecast) \/ Contains(cr, S_nextaccumulated) THEN Yosou
    ELSE IF \/ StartsWith(cr, S_prior)
            \/ Contains(cr, S_prioryear)
            \/ Contains(cr, S_prior1year)
            \/ Contains(cr, S_prioraccumulated)
         THEN (IF Contains(cr, S_instant) THEN ZenkiMatsu ELSE Zenki)
    ELSE IF Contains(cr, S_priorquarter) \/ Contains(cr, S_prior1quarter)
         THEN ZenShihanki
    ELSE IF \/ StartsWith(cr, S_current)
            \/ Contains(cr, S_currentyear)
            \/ Contains(cr, S_currentaccumulated)
         THEN (IF Contains(cr, S_instant) THEN ToukiMatsu ELSE Touki)
    ELSE IF Contains(cr, S_prior)
         THEN (IF Contains(cr, S_instant) THEN ZenkiMatsu ELSE Zenki)
    ELSE IF Contains(cr, S_current)
         THEN (IF Contains(cr, S_instant) THEN ToukiMatsu ELSE Touki)
    ELSE context_ref

-----------------------------------------------------------------------------
(* Python numbers *)

Abs(x) == IF x < 0 THEN -x ELSE x

RECURSIVE GCD(_, _)
GCD(a, b) == IF b = 0 THEN a ELSE GCD(b, a % b)

RECURSIVE Pow10(_)
Pow10(k) == IF k = 0 THEN 1 ELSE 10 * Pow10(k - 1)

\* Python None in a place that holds a float otherwise
None == [isnone |-> TRUE, n |-> 0, d |-> 1]

\* the float n/d (d > 0), in lowest terms
Num(n, d) ==
    LET g == GCD(Abs(n), d) IN [isnone |-> FALSE, n |-> n \div g, d |-> d \div g]

AsciiDigits == <<"0","1","2","3","4","5","6","7","8","9">>
FullwidthDigits == <<"U+FF10","U+FF11","U+FF12","U+FF13","U+FF14",
                     "U+FF15","U+FF16","U+FF17","U+FF18","U+FF19">>

FW_COMMA  == "U+FF0C"   \* fullwidth comma
IDSP      == "U+3000"   \* ideographic space
TRI_WHITE == "U+25B3"   \* white up-pointing triangle
TRI_BLACK == "U+25B2"   \* black up-pointing triangle
FW_HYPHEN == "U+FF0D"   \* fullwidth hyphen-minus
HBAR      == "U+2015"   \* horizontal bar
EM_DASH   == "U+2014"   \* em dash
EN_DASH   == "U+2013"   \* en dash

\* str.isspace() on one character
IsSpace(c) == c \in {" ", IDSP}

\* str.strip()
RECURSIVE LStrip(_)
LStrip(s) == IF s # <<>> /\ IsSpace(Head(s)) THEN LStrip(Tail(s)) ELSE s

RECURSIVE RStrip(_)
RStrip(s) ==
    IF s # <<>> /\ IsSpace(s[Len(s)]) THEN RStrip(SubSeq(s, 1, Len(s) - 1)) ELSE s

Strip(s) == RStrip(LStrip(s))

\* ToAsciiDecimal without the digit conversion: ASCII digits only
ToAsciiSpaceOnly(c) == IF IsSpace(c) THEN " " ELSE c

\* What float() and int() do to a character before parsing: a Unicode
\* decimal digit becomes its ASCII digit, a Unicode space becomes a space.
ToAsciiDecimal(c) ==
    IF \E i \in 1..10 : FullwidthDigits[i] = c
    THEN AsciiDigits[CHOOSE i \in 1..10 : FullwidthDigits[i] = c]
    ELSE IF IsSpace(c) THEN " " ELSE c

IsAsciiDigit(c) == \E i \in 1..10 : AsciiDigits[i] = c

DigitValue(c) == (CHOOSE i \in 1..10 : AsciiDigits[i] = c) - 1

\* the number a string of ASCII digits writes
RECURSIVE NatOf(_)
NatOf(digits) ==
    IF digits = <<>> THEN 0
    ELSE 10 * NatOf(SubSeq(digits, 1, Len(digits) - 1)) + DigitValue(digits[Len(digits)])

AllDigits(s) == \A i \in 1..Len(s) : IsAsciiDigit(s[i])

\* float(s): [ok, value]; ok is FALSE where float() raises ValueError.
\* The grammar is the part of Python's over the characters of the texts
\* below: a sign, digits, at most one decimal point (no exponent, no
\* underscore, no inf or nan).
ParseFloat(s) ==
    LET t      == Strip([i \in 1..Len(s) |-> ToAsciiDecimal(s[i])])
        signed == t # <<>> /\ t[1] \in {"-", "+"}
        body   == IF signed THEN Tail(t) ELSE t
        dots   == { i \in 1..Len(body) : body[i] = "." }
        dot    == IF dots = {} THEN Len(body) + 1 ELSE CHOOSE i \in dots : TRUE
        ip     == SubSeq(body, 1, dot - 1)
        fp     == SubSeq(body, dot + 1, Len(body))
        ok     == /\ Cardinality(dots) <= 1
                  /\ Len(ip) + Len(fp) >= 1
                  /\ AllDigits(ip) /\ AllDigits(fp)
    IN  IF ok
        THEN [ok |-> TRUE,
              value |-> Num((IF t[1] = "-" THEN -1 ELSE 1) * NatOf(ip \o fp),
                            Pow10(Len(fp)))]
        ELSE [ok |-> FALSE, value |-> None]

\* int(s): [ok, value]; ok is FALSE where int() raises ValueError
ParseInt(s) ==
    LET t      == Strip([i \in 1..Len(s) |-> ToAsciiDecimal(s[i])])
        signed == t # <<>> /\ t[1] \in {"-", "+"}
        body   == IF signed THEN Tail(t) ELSE t
    IN  IF body # <<>> /\ AllDigits(body)
        THEN [ok |-> TRUE, value |-> (IF t[1] = "-" THEN -1 ELSE 1) * NatOf(body)]
        ELSE [ok |-> FALSE, value |-> 0]

-----------------------------------------------------------------------------
(* Taxonomy tables (excerpts) *)

\* a lookup that finds no key
DictGetDefault(dict, key, default) == default

\* dict.get(key, default)
DictGet(dict, key, default) == IF key \in DOMAIN dict THEN dict[key] ELSE default

LabelMapAtImport ==
    ( <<"NetSales">>          :> <<"U+58F2","U+4E0A","U+9AD8">> ) @@
    ( <<"Revenue">>           :> <<"U+58F2","U+4E0A","U+53CE","U+76CA","U+FF08",
                                   "I","F","R","S","U+FF09">> ) @@
    ( <<"OperatingRevenue1">> :> <<"U+55B6","U+696D","U+53CE","U+76CA">> ) @@
    ( <<"GrossProfit">>       :> <<"U+58F2","U+4E0A","U+7DCF","U+5229","U+76CA">> ) @@
    ( <<"OperatingIncome">>   :> <<"U+55B6","U+696D","U+5229","U+76CA">> ) @@
    ( <<"OrdinaryIncome">>    :> <<"U+7D4C","U+5E38","U+5229","U+76CA">> ) @@
    ( <<"ProfitLoss">>        :> <<"U+5F53","U+671F","U+7D14","U+5229","U+76CA">> )

ElementMapAtImport ==
    ( <<"NetSales">>          :> <<"NetSales">> ) @@
    ( <<"OperatingIncome">>   :> <<"OperatingIncome">> ) @@
    ( <<"OrdinaryIncome">>    :> <<"OrdinaryIncome">> ) @@
    ( <<"ProfitLoss">>        :> <<"ProfitLoss">> ) @@
    ( <<"SalesIFRS">>         :> <<"NetSales">> ) @@
    ( <<"ChangeInNetSales">>  :> <<"ChangeInNetSales">> ) @@
    ( <<"ChangeInSalesIFRS">> :> <<"ChangeInNetSales">> )

\* the module-level tables as the import of the module leaves them
ModuleAtImport ==
    [ XBRL_LABEL_MAP |-> LabelMapAtImport, TSE_ELEMENT_MAP |-> ElementMapAtImport ]

\* the tables as an operation finds them when it runs
XBRL_LABEL_MAP == module_state.XBRL_LABEL_MAP
TSE_ELEMENT_MAP == module_state.TSE_ELEMENT_MAP

\* what a store into a table would leave: the label found for a vendor name
\* kept under that name, a vendor name dropped from the element map
LabelMapStored ==
    ( <<"SalesIFRS">> :> LabelMapAtImport[<<"NetSales">>] ) @@ LabelMapAtImport
ElementMapStored ==
    [ k \in DOMAIN ElementMapAtImport \ { <<"SalesIFRS">> } |-> ElementMapAtImport[k] ]

ModuleStates ==
    [ XBRL_LABEL_MAP  : { LabelMapAtImport, LabelMapStored },
      TSE_ELEMENT_MAP : { ElementMapAtImport, ElementMapStored } ]

\* an extractor that stores into both tables
WrittenGlobalsStoring(op) ==
    IF op = "parse_xbrl_content" THEN { "XBRL_LABEL_MAP", "TSE_ELEMENT_MAP" } ELSE {}

\* the module-level tables an operation stores into: none has a global
\* statement or a store into a table; the tables are read with dict.get only
\* (lines 669, 670, 730, 798)
WrittenGlobals(op) == {}

\* the module-level state an operation may leave
ModuleStateAfter(op, state) ==
    { m \in ModuleStates :
        \A n \in DOMAIN state \ WrittenGlobals(op) : m[n] = state[n] }

-----------------------------------------------------------------------------
(* parse_contexts, parse_xbrl_content *)

\* elem.get(key, default)
Get(elem, key, default) == DictGet(elem.attrib, key, default)

\* contexts[ctx_id] = period_info for every context element with a
\* non-empty id, a later element of the same id replacing an earlier one
RECURSIVE parse_contexts(_)
parse_contexts(context_elems) ==
    IF context_elems = <<>> THEN EmptyDict
    ELSE LET last   == context_elems[Len(context_elems)]
             before == parse_contexts(SubSeq(context_elems, 1, Len(context_elems) - 1))
             ctx_id == Get(last, "id", <<>>)
         IN  IF ctx_id = <<>> THEN before
             ELSE [i \in DOMAIN before \cup {ctx_id} |->
                      IF i = ctx_id THEN last.period_info ELSE before[i]]

\* CleanIxbrl turning the white triangle only into a minus
CleanIxbrlWhiteOnly(text) ==
    LET c1 == Replace(Replace(Replace(Replace(text, ",", <<>>), FW_COMMA, <<>>),
                              " ", <<>>), IDSP, <<>>)
        c2 == Replace(c1, TRI_WHITE, <<"-">>)
    IN  IF StartsWith(c2, <<"(">>) /\ EndsWith(c2, <<")">>)
        THEN <<"-">> \o SubSeq(c2, 2, Len(c2) - 1)
        ELSE c2

\* lines 644-647: separators and spaces removed, the triangles turned into
\* a minus, enclosing parentheses turned into a leading minus
CleanIxbrl(text) ==
    LET c1 == Replace(Replace(Replace(Replace(text, ",", <<>>), FW_COMMA, <<>>),
                              " ", <<>>), IDSP, <<>>)
        c2 == Replace(Replace(c1, TRI_WHITE, <<"-">>), TRI_BLACK, <<"-">>)
    IN  IF StartsWith(c2, <<"(">>) /\ EndsWith(c2, <<")">>)
        THEN <<"-">> \o SubSeq(c2, 2, Len(c2) - 1)
        ELSE c2

\* line 649: the remainders that mean "not applicable"
BareDashes == { <<"-">>, <<FW_HYPHEN>>, <<HBAR>>, <<EM_DASH>>, <<>> }

\* ApplySign negating the value instead of forcing it negative
ApplySignNegating(value, sign) ==
    IF sign = <<"-">> THEN Num(-value.n, value.d) ELSE value

\* lines 653-654
ApplySign(value, sign) ==
    IF sign = <<"-">> THEN Num(-Abs(value.n), value.d) ELSE value

\* ApplyScale for a positive exponent only
ApplyScalePositiveOnly(value, scale) ==
    LET sc == ParseInt(scale) IN
    IF sc.ok /\ sc.value > 0 THEN Num(value.n * Pow10(sc.value), value.d) ELSE value

\* sys.float_info.max_10_exp: 10 ** 308 is the largest power of ten that
\* converts to a float
MaxTenExp == 308

\* line 659: value * (10 ** sc) converts the int 10 ** sc to a float, which
\* raises OverflowError for sc > 308, whatever the value
ScaleOverflows(scale) ==
    LET sc == ParseInt(scale) IN sc.ok /\ sc.value > MaxTenExp

\* lines 656-661, where line 659 does not raise
ApplyScale(value, scale) ==
    LET sc == ParseInt(scale) IN
    IF sc.ok /\ sc.value # 0
    THEN IF sc.value > 0
         THEN Num(value.n * Pow10(sc.value), value.d)
         ELSE Num(value.n, value.d * Pow10(-sc.value))
    ELSE value

\* lines 640-663: [skip, value]; skip is the 'continue' of line 650
\* IxbrlValue skipping the fact whose text float() rejects
IxbrlValueDropping(tag, text, sign, scale) ==
    IF tag # <<"ix:nonfraction">> THEN [skip |-> FALSE, value |-> None]
    ELSE LET clean == CleanIxbrl(text) IN
         IF clean \in BareDashes \/ ~ParseFloat(clean).ok
         THEN [skip |-> TRUE, value |-> None]
         ELSE [skip |-> FALSE,
               value |-> ApplyScale(ApplySign(ParseFloat(clean).value, sign), scale)]

IxbrlValue(tag, text, sign, scale) ==
    IF tag # <<"ix:nonfraction">> THEN [skip |-> FALSE, value |-> None]
    ELSE LET clean == CleanIxbrl(text) IN
         IF clean \in BareDashes THEN [skip |-> TRUE, value |-> None]
         ELSE IF ~ParseFloat(clean).ok THEN [skip |-> FALSE, value |-> None]
         ELSE [skip |-> FALSE,
               value |-> ApplyScale(ApplySign(ParseFloat(clean).value, sign), scale)]

\* lines 640-663: the OverflowError of line 659 is neither a ValueError
\* (line 660) nor a ValueError or TypeError (line 662) and leaves the function
IxbrlValueRaises(tag, text, sign, scale) ==
    /\ tag = <<"ix:nonfraction">>
    /\ CleanIxbrl(text) \notin BareDashes
    /\ ParseFloat(CleanIxbrl(text)).ok
    /\ ScaleOverflows(scale)

\* name_attr.split(":", 1): <<ns_prefix, element_name>>
SplitName(name_attr) ==
    LET colons == { i \in 1..Len(name_attr) : name_attr[i] = ":" } IN
    IF colons = {} THEN << <<>>, name_attr >>
    ELSE LET c == CHOOSE i \in colons : \A j \in colons : i <= j
         IN  << SubSeq(name_attr, 1, c - 1), SubSeq(name_attr, c + 1, Len(name_attr)) >>

\* str(elem.tag): a namespaced tag is written "{namespace}localname"
HasBrace(tag) == tag.namespace # <<>>

\* the vendor name kept as it is
MappedNameUnmapped(element_name) == element_name

\* line 669: TSE_ELEMENT_MAP.get(element_name, element_name)
MappedName(element_name) == DictGet(TSE_ELEMENT_MAP, element_name, element_name)

\* one iteration of the loop of _parse_ixbrl: the facts it appends (none or one)
IxbrlFacts(elem, contexts) ==
    LET tag         == IF HasBrace(elem.tag) THEN <<>> ELSE Lower(elem.tag.localname)
        name_attr   == Get(elem, "name", <<>>)
        context_ref == Get(elem, "contextref", <<>>)
        text        == Strip(elem.text)
        parsed      == IxbrlValue(tag, text, Get(elem, "sign", <<>>),
                                  Get(elem, "scale", <<"0">>))
        element_name == SplitName(name_attr)[2]
        mapped_name == MappedName(element_name)
    IN  IF \/ tag \notin { <<"ix:nonfraction">>, <<"ix:nonnumeric">> }
           \/ name_attr = <<>>
           \/ context_ref = <<>>
           \/ text = <<>>
           \/ parsed.skip
        THEN <<>>
        ELSE << [ element     |-> mapped_name,
                  label_ja    |-> DictGet(XBRL_LABEL_MAP, mapped_name,
                                          DictGet(XBRL_LABEL_MAP, element_name, <<>>)),
                  namespace   |-> SplitName(name_attr)[1],
                  context_ref |-> context_ref,
                  period_type |-> classify_period(context_ref, contexts),
                  value       |-> parsed.value,
                  value_raw   |-> text,
                  unit_ref    |-> Get(elem, "unitref", <<>>),
                  decimals    |-> Get(elem, "decimals", <<>>) ] >>

\* one iteration of the loop of _parse_ixbrl raises
IxbrlRaises(elem) ==
    LET tag == IF HasBrace(elem.tag) THEN <<>> ELSE Lower(elem.tag.localname) IN
    /\ tag \in { <<"ix:nonfraction">>, <<"ix:nonnumeric">> }
    /\ Get(elem, "name", <<>>) # <<>>
    /\ Get(elem, "contextref", <<>>) # <<>>
    /\ Strip(elem.text) # <<>>
    /\ IxbrlValueRaises(tag, Strip(elem.text), Get(elem, "sign", <<>>),
                        Get(elem, "scale", <<"0">>))

\* the loop ending after its first element
IxbrlLoopFirstOnly(elems, contexts) ==
    IF elems = <<>> THEN <<>> ELSE IxbrlFacts(Head(elems), contexts)

RECURSIVE IxbrlLoop(_, _)
IxbrlLoop(elems, contexts) ==
    IF elems = <<>> THEN <<>>
    ELSE IxbrlFacts(Head(elems), contexts) \o IxbrlLoop(Tail(elems), contexts)

_parse_ixbrl(tree) == IxbrlLoop(tree.elems, parse_contexts(tree.context_elems))

\* lines 721-724: commas removed, enclosing parentheses turned into a
\* leading minus, the triangles turned into a minus
CleanRegular(text) ==
    LET c1 == Replace(Replace(text, ",", <<>>), FW_COMMA, <<>>)
        c2 == IF StartsWith(c1, <<"(">>) /\ EndsWith(c1, <<")">>)
              THEN <<"-">> \o SubSeq(c1, 2, Len(c1) - 1)
              ELSE c1
    IN  Replace(Replace(c2, TRI_WHITE, <<"-">>), TRI_BLACK, <<"-">>)

\* lines 732-744 on the namespaces of the documents below
NsShort(namespace) ==
    IF namespace = <<>> THEN <<>>
    ELSE IF namespace = <<"http://disclosure.edinet-fsa.go.jp/taxonomy/jppfs/2023-11-01/jppfs_cor">>
         THEN <<"jppfs_cor">>
    ELSE <<"tse-ed-t">>

\* one iteration of the loop of _parse_regular_xbrl
RegularFacts(elem, contexts) ==
    LET text == Strip(elem.text) IN
    IF \/ ~HasBrace(elem.tag)
       \/ "contextRef" \notin DOMAIN elem.attrib
       \/ text = <<>>
    THEN <<>>
    ELSE << [ element     |-> elem.tag.localname,
              label_ja    |-> DictGet(XBRL_LABEL_MAP, elem.tag.localname, <<>>),
              namespace   |-> NsShort(elem.tag.namespace),
              context_ref |-> elem.attrib["contextRef"],
              period_type |-> classify_period(elem.attrib["contextRef"], contexts),
              value       |-> ParseFloat(CleanRegular(text)).value,
              value_raw   |-> text,
              unit_ref    |-> Get(elem, "unitRef", <<>>),
              decimals    |-> Get(elem, "decimals", <<>>) ] >>

RECURSIVE RegularLoop(_, _)
RegularLoop(elems, contexts) ==
    IF elems = <<>> THEN <<>>
    ELSE RegularFacts(Head(elems), contexts) \o RegularLoop(Tail(elems), contexts)

_parse_regular_xbrl(tree) == RegularLoop(tree.elems, parse_contexts(tree.context_elems))

S_htm  == <<".","h","t","m">>
S_html == <<".","h","t","m","l">>

parse_xbrl_content(tree, name) ==
    IF EndsWith(Lower(name), S_htm) \/ EndsWith(Lower(name), S_html)
    THEN _parse_ixbrl(tree)
    ELSE _parse_regular_xbrl(tree)

\* the call ends in an exception instead of returning a list: the loop of
\* _parse_ixbrl reaches an element that raises (lines 600-663); the loop of
\* _parse_regular_xbrl reads no scale (lines 719-727)
Raises(tree, name) ==
    /\ EndsWith(Lower(name), S_htm) \/ EndsWith(Lower(name), S_html)
    /\ \E i \in 1..Len(tree.elems) : IxbrlRaises(tree.elems[i])

ExtractIdle ==
    /\ filename = <<>>
    /\ content = [context_elems |-> <<>>, elems |-> <<>>]
    /\ parsed_data = <<>>

-----------------------------------------------------------------------------
(* build_financial_summary *)

\* a - b
Minus(a, b) == Num(a.n * b.d - b.n * a.d, a.d * b.d)

\* abs(a)
AbsOf(a) == [a EXCEPT !.n = Abs(a.n)]

\* a / b, b # 0
DividedBy(a, b) ==
    IF b.n > 0 THEN Num(a.n * b.d, a.d * b.n) ELSE Num(-(a.n * b.d), a.d * (-b.n))

\* line 806, line 809
CurrentTypes == { Touki, ToukiMatsu, TouShihanki }
\* the prior roles without the prior quarter
PriorTypesWithoutQuarter == { Zenki, ZenkiMatsu }
PriorTypes   == { Zenki, ZenkiMatsu, ZenShihanki }

\* Series.unique(): the values in order of first appearance
RECURSIVE UniqueFrom(_, _)
UniqueFrom(s, seen) ==
    IF s = <<>> THEN <<>>
    ELSE IF Head(s) \in seen THEN UniqueFrom(Tail(s), seen)
    ELSE <<Head(s)>> \o UniqueFrom(Tail(s), seen \cup { Head(s) })

Unique(s) == UniqueFrom(s, {})

\* the value of the last row of one of the types
LastOf(elem_data, types) ==
    LET rows == SelectSeq(elem_data, LAMBDA row : row.period_type \in types)
    IN  IF rows = <<>> THEN None ELSE rows[Len(rows)].value

\* lines 803-811: the value of the first row of one of the types, None without one
FirstOf(elem_data, types) ==
    LET rows == SelectSeq(elem_data, LAMBDA row : row.period_type \in types)
    IN  IF rows = <<>> THEN None ELSE rows[1].value

\* the rate dividing by prior_val itself
ChangeRateSigned(change, prior_val) == DividedBy(change, prior_val)

\* line 820: change / abs(prior_val)
ChangeRate(change, prior_val) == DividedBy(change, AbsOf(prior_val))

\* lines 796-830: the row of one element
SummaryRow(elem_name, elem_data) ==
    LET current_val == FirstOf(elem_data, CurrentTypes)
        prior_val   == FirstOf(elem_data, PriorTypes)
        both        == /\ ~current_val.isnone
                       /\ ~prior_val.isnone
                       /\ prior_val.n # 0
        change      == IF both THEN Minus(current_val, prior_val) ELSE None
    IN  [ elem_name   |-> elem_name,
          label       |-> DictGet(XBRL_LABEL_MAP, elem_name, elem_name),
          current_val |-> current_val,
          prior_val   |-> prior_val,
          change      |-> change,
          change_rate |-> IF both THEN ChangeRate(change, prior_val) ELSE None ]

\* float('nan'), which is not None
NaN == [isnone |-> FALSE, n |-> 0, d |-> 0]

\* neither None nor NaN: Series.notna()
NotNa(v) == ~v.isnone /\ v.d # 0

\* pd.DataFrame(summary_rows), line 832: in a column that holds a float
\* every None becomes NaN; a column of None only keeps its None
DataFrame(rows) ==
    LET Column(col, v) ==
            IF v.isnone /\ (\E j \in 1..Len(rows) : ~rows[j][col].isnone)
            THEN NaN ELSE v
    IN  [i \in 1..Len(rows) |->
            [rows[i] EXCEPT !.current_val = Column("current_val", @),
                            !.prior_val   = Column("prior_val", @),
                            !.change      = Column("change", @),
                            !.change_rate = Column("change_rate", @)]]

\* lines 785-830: summary_rows; a DataFrame is the sequence of its rows and
\* pd.DataFrame() is <<>>
summary_rows(d) ==
    IF d = <<>> THEN <<>>
    ELSE
      LET numeric_df == SelectSeq(d, LAMBDA row : ~row.value.isnone)
      IN  IF numeric_df = <<>> THEN <<>>
          ELSE
            LET elements == Unique([i \in 1..Len(numeric_df) |-> numeric_df[i].element])
                rows == [i \in 1..Len(elements) |->
                           SummaryRow(elements[i],
                                      SelectSeq(numeric_df,
                                                LAMBDA row : row.element = elements[i]))]
            IN  SelectSeq(rows, LAMBDA r : ~r.current_val.isnone \/ ~r.prior_val.isnone)

build_financial_summary(d) == DataFrame(summary_rows(d))

SummaryIdle == df = <<>> /\ summary_df = <<>>

-----------------------------------------------------------------------------
(* analyze_significant_changes *)

\* a > b
GreaterThan(a, b) == a.n * b.d > b.n * a.d

\* a >= b
GreaterOrEqual(a, b) == a.n * b.d >= b.n * a.d

\* the rows in descending order of abs(change_rate)
IsDescendingByAbs(rows) ==
    \A i \in 1..Len(rows) - 1 :
        GreaterOrEqual(AbsOf(rows[i].change_rate), AbsOf(rows[i + 1].change_rate))

\* every order of the rows
Reorderings(rows) ==
    { [i \in 1..Len(rows) |-> rows[f[i]]] : f \in Permutations(1..Len(rows)) }

\* line 855: sort_values("change_rate", ascending=False, key=abs) sorts with
\* the default kind="quicksort", which is not a stable sort: the result is
\* one of the descending orders, rows of equal key in any order
sort_values(rows) == { r \in Reorderings(rows) : IsDescendingByAbs(r) }

\* lines 850-857: the results the call can return
analyze_significant_changes(sdf, th) ==
    IF sdf = <<>> THEN { <<>> }
    ELSE LET notna == SelectSeq(sdf, LAMBDA r : NotNa(r.change_rate))
             sig   == SelectSeq(notna,
                                LAMBDA r : GreaterOrEqual(AbsOf(r.change_rate), th))
         IN  sort_values(sig)

AnalyticsIdle == threshold = None /\ significant_df = <<>> /\ margins_df = <<>>

-----------------------------------------------------------------------------
(* calculate_profit_margins *)

\* float arithmetic: NaN in, NaN out
FloatDiv(a, b) == IF NotNa(a) /\ NotNa(b) THEN DividedBy(a, b) ELSE NaN
FloatMinus(a, b) == IF NotNa(a) /\ NotNa(b) THEN Minus(a, b) ELSE NaN
Times100(a) == IF NotNa(a) THEN Num(a.n * 100, a.d) ELSE NaN

\* round(x, 2): to the nearest hundredth, a half to the even one; NaN stays NaN
Round2(x) ==
    IF ~NotNa(x) THEN x
    ELSE LET scaled == x.n * 100
             q == scaled \div x.d
             r == scaled % x.d
             k == IF 2 * r < x.d THEN q
                  ELSE IF 2 * r > x.d THEN q + 1
                  ELSE IF q % 2 = 0 THEN q ELSE q + 1
         IN  Num(k, 100)

\* line 877
sales_elems == << <<"NetSales">>, <<"Revenue">>, <<"OperatingRevenue1">> >>

\* lines 887-893
margin_items ==
    << << <<"U+58F2","U+4E0A","U+7DCF","U+5229","U+76CA","U+7387">>, <<"GrossProfit">> >>,
       << <<"U+55B6","U+696D","U+5229","U+76CA","U+7387">>, <<"OperatingIncome">> >>,
       << <<"U+7D4C","U+5E38","U+5229","U+76CA","U+7387">>, <<"OrdinaryIncome">> >>,
       << <<"U+5F53","U+671F","U+7D14","U+5229","U+76CA","U+7387">>, <<"ProfitLoss">> >>,
       << <<"U+89AA","U+4F1A","U+793E","U+5E30","U+5C5E","U+7D14","U+5229","U+76CA","U+7387">>,
          <<"ProfitLossAttributableToOwnersOfParent">> >> >>

\* summary_df[summary_df[elem_name column] == elem]
RowsNamed(sdf, elem) == SelectSeq(sdf, LAMBDA r : r.elem_name = elem)

\* line 879: the row exists and its current value is not None (NaN is not None)
StopsAt(sdf, elem) ==
    RowsNamed(sdf, elem) # <<>> /\ ~RowsNamed(sdf, elem)[1].current_val.isnone

\* lines 874-882: <<sales_current, sales_prior>> after the loop
SalesOf(sdf) ==
    LET stops == { i \in 1..Len(sales_elems) : StopsAt(sdf, sales_elems[i]) } IN
    IF stops = {} THEN << None, None >>
    ELSE LET i == CHOOSE i \in stops : \A j \in stops : i <= j
             row == RowsNamed(sdf, sales_elems[i])[1]
         IN  << row.current_val, row.prior_val >>

\* sales_prior and sales_prior != 0 (NaN is true and differs from 0)
IsTruthyNonZero(v) == ~v.isnone /\ (v.d = 0 \/ v.n # 0)

\* lines 896-916: the row of one margin item (none or one)
MarginRow(sdf, item, sales) ==
    LET row == RowsNamed(sdf, item[2]) IN
    IF row = <<>> THEN <<>>
    ELSE
      LET curr == row[1].current_val
          prev == row[1].prior_val
          curr_margin == IF ~curr.isnone THEN Times100(FloatDiv(curr, sales[1])) ELSE None
          prev_margin == IF ~prev.isnone /\ IsTruthyNonZero(sales[2])
                         THEN Times100(FloatDiv(prev, sales[2])) ELSE None
          diff == IF ~curr_margin.isnone /\ ~prev_margin.isnone
                  THEN FloatMinus(curr_margin, prev_margin) ELSE None
      IN  << [ margin_name |-> item[1],
               curr_margin |-> IF ~curr_margin.isnone THEN Round2(curr_margin) ELSE None,
               prev_margin |-> IF ~prev_margin.isnone THEN Round2(prev_margin) ELSE None,
               diff        |-> IF ~diff.isnone THEN Round2(diff) ELSE None ] >>

RECURSIVE MarginLoop(_, _, _)
MarginLoop(sdf, items, sales) ==
    IF items = <<>> THEN <<>>
    ELSE MarginRow(sdf, Head(items), sales) \o MarginLoop(sdf, Tail(items), sales)

\* pd.DataFrame(margin_rows), line 918
MarginsDataFrame(rows) ==
    LET Column(col, v) ==
            IF v.isnone /\ (\E j \in 1..Len(rows) : ~rows[j][col].isnone)
            THEN NaN ELSE v
    IN  [i \in 1..Len(rows) |->
            [rows[i] EXCEPT !.curr_margin = Column("curr_margin", @),
                            !.prev_margin = Column("prev_margin", @),
                            !.diff        = Column("diff", @)]]

calculate_profit_margins(sdf) ==
    IF sdf = <<>> THEN <<>>
    ELSE LET sales == SalesOf(sdf) IN
         IF sales[1].isnone \/ (NotNa(sales[1]) /\ sales[1].n = 0) THEN <<>>
         ELSE MarginsDataFrame(MarginLoop(sdf, margin_items, sales))

-----------------------------------------------------------------------------
(* download_xbrl_zip, process_single_xbrl, main *)

\* what a zip_path holds: nothing, an archive cut short, or a whole archive,
\* named by what processing it comes to
Absent    == "absent"
Truncated == "truncated"

\* how the request and the streaming of a download end
DownloadOutcomes == { "complete", "refused", "interrupted" }

\* lines 372-384: [ok, file], the return value and what save_path holds after
\* the call.  "refused": session.get or raise_for_status raises (lines
\* 375-376), before save_path is opened.  "interrupted": iter_content raises
\* (line 378) after open(save_path, "wb") has created the file (line 377);
\* the handler of line 382 returns False and removes nothing.
download_xbrl_zip(outcome, archive, file) ==
    CASE outcome = "complete"    -> [ok |-> TRUE,  file |-> archive]
      [] outcome = "refused"     -> [ok |-> FALSE, file |-> file]
      [] outcome = "interrupted" -> [ok |-> FALSE, file |-> Truncated]

\* lines 1142-1191: the exception process_single_xbrl ends in for the file at
\* zip_path, "none" when it returns
process_single_xbrl(file) ==
    CASE file \in { Truncated, "corrupt" } -> "BadZipFile"      \* line 1146 (408)
      [] file = "no_document"              -> "none"            \* lines 1147-1149
      [] file = "unparsable"               -> "none"            \* lines 1155-1157
      [] file = "overflow"                 -> "OverflowError"   \* line 1154 (659)
      [] file = "unwritable"               -> "PermissionError" \* line 1191 (1113)
      [] file = "analyzable"               -> "none"

\* an except clause that catches ValueError only
CaughtValueErrorOnly(exc) == exc = "ValueError"

\* line 1269, except Exception: the classes it catches
CaughtByMain(exc) == exc \in { "BadZipFile", "OverflowError", "PermissionError", "ValueError" }

MainIdle ==
    /\ xbrl_entries = <<>>
    /\ files = EmptyDict
    /\ entry_no = 0
    /\ attempts = <<>>
    /\ total_xbrl = 0
    /\ total_analyzed = 0
    /\ runs = 0

-----------------------------------------------------------------------------
(* Context ids and context tables classify_period is run on *)

MaxWords == 2

CtxWords ==
    { <<"P","r","i","o","r">>,
      <<"C","u","r","r","e","n","t">>,
      <<"P","r","i","o","r","Q","u","a","r","t","e","r">>,
      <<"P","r","i","o","r","1","Q","u","a","r","t","e","r">>,
      <<"P","r","i","o","r","A","c","c","u","m","u","l","a","t","e","d","Q","3">>,
      <<"C","u","r","r","e","n","t","Y","e","a","r">>,
      <<"N","e","x","t","A","c","c","u","m","u","l","a","t","e","d">>,
      <<"F","o","r","e","c","a","s","t">>,
      <<"I","n","s","t","a","n","t">>,
      <<"F","i","l","i","n","g","D","a","t","e">>,
      ZenShihanki }

RECURSIVE WordsUpTo(_)
WordsUpTo(n) ==
    IF n = 0 THEN { <<>> }
    ELSE WordsUpTo(n - 1) \cup { s \o w : s \in WordsUpTo(n - 1), w \in CtxWords }

\* a context needs a non-empty id (parse_contexts, and the extractors' skip)
CtxIds == WordsUpTo(MaxWords) \ { <<>> }

UpperChar(c) ==
    IF \E i \in 1..26 : LowerChars[i] = c
    THEN UpperChars[CHOOSE i \in 1..26 : LowerChars[i] = c]
    ELSE c

Upper(s) == [i \in 1..Len(s) |-> UpperChar(s[i])]

\* the spellings of one id that differ in case only
CaseVariants(id) == { id, Lower(id), Upper(id) }

\* period_info of a context, as parse_contexts stores it
InstantInfo  == [instant |-> <<"2","0","2","4","-","0","3","-","3","1">>]
DurationInfo == [startdate |-> <<"2","0","2","3","-","0","4","-","0","1">>,
                 enddate   |-> <<"2","0","2","4","-","0","3","-","3","1">>]

EmptyContexts == EmptyDict

\* context tables for an id: unresolved, resolved as an instant, resolved as a duration
ContextTables(id) ==
    { EmptyContexts, [i \in {id} |-> InstantInfo], [i \in {id} |-> DurationInfo] }

NotRun == [done |-> FALSE, value |-> <<>>]
Returned(v) == [done |-> TRUE, value |-> v]

PeriodIdle == calls = <<>> /\ period_types = <<>>

PeriodInit ==
    /\ pc = "start"
    /\ module_state = ModuleAtImport
    /\ jobs = <<>>
    /\ \E a \in CtxIds : \E b \in CaseVariants(a) :
         \E ta \in ContextTables(a) : \E tb \in ContextTables(b) \ {ta} :
            calls = << [context_ref |-> a, contexts |-> ta],
                       [context_ref |-> b, contexts |-> tb] >>
    /\ period_types = <<NotRun, NotRun>>
    /\ LocatorIdle
    /\ ExtractIdle
    /\ SummaryIdle
    /\ AnalyticsIdle
    /\ MainIdle

ClassifyPeriod(k) ==
    /\ ~period_types[k].done
    /\ period_types' =
         [period_types EXCEPT
            ![k] = Returned(classify_period(calls[k].context_ref, calls[k].contexts))]
    /\ pc' = "classify_period"
    /\ module_state' \in ModuleStateAfter("classify_period", module_state)
    /\ UNCHANGED <<calls, locatorVars, extractVars, summaryVars, analyticsVars,
                   mainVars, jobs>>

PeriodNext == \E k \in 1..2 : ClassifyPeriod(k)

PeriodSpec == PeriodInit /\ [][PeriodNext]_vars

-----------------------------------------------------------------------------
(* Documents parse_xbrl_content is run on *)

MaxBody == 3
MaxElems == 2

\* digits and separators, half-width and full-width
BodyChars == { "0", "1", "U+FF10", "U+FF11", ",", FW_COMMA, " ", IDSP }

RECURSIVE Bodies(_)
Bodies(n) ==
    IF n = 0 THEN { <<>> }
    ELSE Bodies(n - 1) \cup { b \o <<c>> : b \in Bodies(n - 1), c \in BodyChars }

\* a number as a filing prints it: plain, in parentheses, or after a triangle
NumberTexts ==
    { p \o b \o q : p \in { <<>>, <<"(">>, <<TRI_WHITE>>, <<TRI_BLACK>> },
                    b \in Bodies(MaxBody),
                    q \in { <<>>, <<")">> } }

\* a dash printed for "not applicable", alone or among separators
DashChars == { "-", FW_HYPHEN, HBAR, EM_DASH, EN_DASH }
DashTexts ==
    { p \o <<c>> \o q : p \in { <<>>, <<",">>, <<IDSP>> },
                        c \in DashChars,
                        q \in { <<>>, <<" ">>, <<FW_COMMA>> } }

\* texts, sign and scale attributes of the facts that carry attributes
AttrTexts ==
    { <<"5">>, <<"1","0","0">>, <<"-","5">>, <<TRI_WHITE,"5">>, <<"(","5",")">>,
      <<"1",".","5">>, <<"a">>, <<"-">> }
NoAttr == EmptyDict
SignAttrs  == { NoAttr, [k \in {"sign"} |-> <<"-">>], [k \in {"sign"} |-> <<"+">>] }
ScaleAttrs ==
    { NoAttr } \cup
    { [k \in {"scale"} |-> v] :
        v \in { <<"0">>, <<"6">>, <<"-","2">>, <<"x">>, <<"3","0","9">> } }

CurrentYearDuration ==
    <<"C","u","r","r","e","n","t","Y","e","a","r","D","u","r","a","t","i","o","n">>

\* a context id that no rule of classify_period matches
FilingDateInstant ==
    <<"F","i","l","i","n","g","D","a","t","e","I","n","s","t","a","n","t">>

InlineNs  == <<>>
JppfsNs   == <<"http://disclosure.edinet-fsa.go.jp/taxonomy/jppfs/2023-11-01/jppfs_cor">>

\* <ix:nonfraction name="tse-ed-t:SalesIFRS" contextref="CurrentYearDuration" ...>
IxElem(tag, text, attrs) ==
    [ tag    |-> [namespace |-> InlineNs, localname |-> tag],
      attrib |-> attrs @@ ( "name" :> <<"tse-ed-t", ":", "SalesIFRS">> ) @@
                           ( "contextref" :> CurrentYearDuration ),
      text   |-> text ]

\* <ix:nonfraction name="..." contextref="...">5</ix:nonfraction>
IxNamed(name, context_ref) ==
    [ tag    |-> [namespace |-> InlineNs, localname |-> <<"ix:nonfraction">>],
      attrib |-> ( "name" :> name ) @@ ( "contextref" :> context_ref ),
      text   |-> <<"5">> ]

\* names in and outside TSE_ELEMENT_MAP and XBRL_LABEL_MAP, with and without prefix
VendorNames ==
    { <<"tse-ed-t", ":", "ChangeInSalesIFRS">>, <<"jppfs_cor", ":", "OperatingRevenue1">>,
      <<"jppfs_cor", ":", "NumberOfEmployees">>, <<"OperatingIncome">> }

\* <jppfs_cor:NetSales contextRef="CurrentYearDuration">
RegularElem(text) ==
    [ tag    |-> [namespace |-> JppfsNs, localname |-> <<"NetSales">>],
      attrib |-> ( "contextRef" :> CurrentYearDuration ),
      text   |-> text ]

\* <xbrli:context id="CurrentYearDuration">
DeclaredContext ==
    [ attrib |-> ( "id" :> CurrentYearDuration ), period_info |-> DurationInfo ]

InlineElems ==
    { IxElem(<<"ix:nonfraction">>, t, NoAttr) : t \in NumberTexts \cup DashTexts }
    \cup { IxElem(<<"ix:nonfraction">>, t, a @@ b) :
              t \in AttrTexts, a \in SignAttrs, b \in ScaleAttrs }
    \cup { IxElem(<<"ix:nonnumeric">>, t, NoAttr) : t \in { <<"a">>, <<"-">>, <<"5">> } }
    \cup { IxNamed(n, CurrentYearDuration) : n \in VendorNames }
    \cup { IxNamed(<<"tse-ed-t", ":", "SalesIFRS">>, FilingDateInstant) }

RegularElems == { RegularElem(t) : t \in NumberTexts \cup DashTexts }

\* the elements of the documents of more than one element
SeveralInline ==
    { IxElem(<<"ix:nonfraction">>, <<"5">>, NoAttr),
      IxElem(<<"ix:nonfraction">>, <<"-">>, NoAttr),
      IxElem(<<"ix:nonfraction">>, <<"a">>, NoAttr),
      IxElem(<<"ix:nonnumeric">>, <<"a">>, NoAttr),
      IxElem(<<"div">>, <<"5">>, NoAttr),
      IxElem(<<"ix:nonfraction">>, <<"5">>, [k \in {"scale"} |-> <<"3","0","9">>]),
      IxNamed(<<"tse-ed-t", ":", "SalesIFRS">>, FilingDateInstant),
      [ tag    |-> [namespace |-> InlineNs, localname |-> <<"ix:nonfraction">>],
        attrib |-> ( "name" :> <<"NetSales">> ),
        text   |-> <<"5">> ] }

SeveralRegular ==
    { RegularElem(<<"5">>), RegularElem(<<"a">>), RegularElem(<<>>),
      [ tag    |-> [namespace |-> JppfsNs, localname |-> <<"NetSales">>],
        attrib |-> ( "contextRef" :> FilingDateInstant ),
        text   |-> <<"5">> ],
      [ tag    |-> [namespace |-> InlineNs, localname |-> <<"NetSales">>],
        attrib |-> ( "contextRef" :> CurrentYearDuration ),
        text   |-> <<"5">> ] }

SeqsOf(S, lo, hi) == UNION { [1..n -> S] : n \in lo..hi }

Trees(single, several) ==
    { [context_elems |-> <<DeclaredContext>>, elems |-> <<e>>] : e \in single }
    \cup { [context_elems |-> c, elems |-> es] :
              c \in { <<>>, <<DeclaredContext>> },
              es \in SeqsOf(several, 0, MaxElems) }

InlineName  == <<"r">> \o S_ixbrl_htm
RegularName == <<"i">> \o S_xbrl

ExtractInit ==
    /\ pc = "start"
    /\ module_state = ModuleAtImport
    /\ jobs = <<>>
    /\ \/ filename = InlineName /\ content \in Trees(InlineElems, SeveralInline)
       \/ filename = RegularName /\ content \in Trees(RegularElems, SeveralRegular)
    /\ parsed_data = <<>>
    /\ LocatorIdle
    /\ PeriodIdle
    /\ SummaryIdle
    /\ AnalyticsIdle
    /\ MainIdle

ParseXbrlContent ==
    /\ pc = "start"
    /\ IF Raises(content, filename)
       THEN pc' = "OverflowError" /\ parsed_data' = parsed_data
       ELSE /\ parsed_data' = parse_xbrl_content(content, filename)
            /\ pc' = "parse_xbrl_content"
    /\ module_state' \in ModuleStateAfter("parse_xbrl_content", module_state)
    /\ UNCHANGED <<filename, content, locatorVars, periodVars, summaryVars, analyticsVars,
                   mainVars, jobs>>

ExtractNext == ParseXbrlContent

ExtractSpec == ExtractInit /\ [][ExtractNext]_vars

-----------------------------------------------------------------------------
(* Archives the locator is run on *)

MaxEntries == 3

N_Summary == <<"S","u","m","m","a","r","y","/">>
N_SUMMARY == <<"S","U","M","M","A","R","Y","/">>
N_Attachment == <<"A","t","t","a","c","h","m","e","n","t","/">>

EntryNames ==
    { N_Summary \o <<"r">> \o S_ixbrl_htm,
      N_SUMMARY \o <<"s","-","I","X","B","R","L",".","H","T","M","L">>,
      N_Attachment \o <<"d">> \o S_ixbrl_htm,
      N_Attachment \o S_summary \o S_ixbrl_htm,
      <<"q">> \o S_ixbrl_html,
      <<"i">> \o S_xbrl,
      N_Attachment \o <<"d","-","d","e","f",".","x","m","l">>,
      N_Summary }

FileSizes == {800, 50000}

ZipEntry == [name : EntryNames, file_size : FileSizes]

\* archives of at most MaxEntries entries with distinct names
Archives ==
    UNION { { a \in [1..n -> ZipEntry] :
                \A i, j \in 1..n : i # j => a[i].name # a[j].name }
            : n \in 0..MaxEntries }

LocatorInit ==
    /\ pc = "start"
    /\ module_state = ModuleAtImport
    /\ jobs = <<>>
    /\ zip_entries \in Archives
    /\ located = NotFound
    /\ PeriodIdle
    /\ ExtractIdle
    /\ SummaryIdle
    /\ AnalyticsIdle
    /\ MainIdle

FindXbrlInstanceInZip ==
    /\ pc = "start"
    /\ located' = find_xbrl_instance_in_zip(zip_entries)
    /\ pc' = "find_xbrl_instance_in_zip"
    /\ module_state' \in ModuleStateAfter("find_xbrl_instance_in_zip", module_state)
    /\ UNCHANGED <<zip_entries, periodVars, extractVars, summaryVars, analyticsVars,
                   mainVars, jobs>>

LocatorNext == FindXbrlInstanceInZip

LocatorSpec == LocatorInit /\ [][LocatorNext]_vars

-----------------------------------------------------------------------------
(* Fact tables build_financial_summary is run on *)

MaxFacts == 2

\* an element of the label table and one outside it
SummaryElements == { <<"NetSales">>, <<"NumberOfEmployees">> }

\* what classify_period returns: a label, or the context id that no rule matches
SummaryPeriodTypes == { Touki, ToukiMatsu, Zenki, ZenShihanki, Yosou, FilingDateInstant }

SummaryValues == { None, Num(0, 1), Num(80, 1), Num(-80, 1), Num(100, 1) }

\* the columns of a fact row that build_financial_summary reads
FactRows == [element : SummaryElements, period_type : SummaryPeriodTypes,
             value : SummaryValues]

SummaryInit ==
    /\ pc = "start"
    /\ module_state = ModuleAtImport
    /\ jobs = <<>>
    /\ df \in SeqsOf(FactRows, 0, MaxFacts)
    /\ summary_df = <<>>
    /\ LocatorIdle
    /\ PeriodIdle
    /\ ExtractIdle
    /\ AnalyticsIdle
    /\ MainIdle

BuildFinancialSummary ==
    /\ pc = "start"
    /\ summary_df' = build_financial_summary(df)
    /\ pc' = "build_financial_summary"
    /\ module_state' \in ModuleStateAfter("build_financial_summary", module_state)
    /\ UNCHANGED <<df, locatorVars, periodVars, extractVars, analyticsVars, mainVars, jobs>>

SummaryNext == BuildFinancialSummary

SummarySpec == SummaryInit /\ [][SummaryNext]_vars

-----------------------------------------------------------------------------
(* Summaries analyze_significant_changes is run on *)

MaxRows == 3

SignificantElements ==
    { <<"NetSales">>, <<"OperatingIncome">>, <<"OrdinaryIncome">>, <<"NumberOfEmployees">> }

\* current and prior value of a row: rates 1/4, -1/5, -2, 2 and no rate
CurrentAndPrior ==
    { <<Num(100, 1), Num(80, 1)>>, <<Num(80, 1), Num(100, 1)>>,
      <<Num(-80, 1), Num(80, 1)>>, <<Num(80, 1), Num(-80, 1)>>,
      <<Num(100, 1), None>>, <<Num(100, 1), Num(0, 1)>>, <<None, Num(80, 1)>> }

\* the facts of an element with the current value c and the prior value p
FactsOf(elem, c, p) ==
    SelectSeq(<< [element |-> elem, period_type |-> Touki, value |-> c],
                 [element |-> elem, period_type |-> Zenki, value |-> p] >>,
              LAMBDA f : ~f.value.isnone)

\* the row build_financial_summary makes of them
RowOf(elem, cp) == SummaryRow(elem, FactsOf(elem, cp[1], cp[2]))

HasDistinctElements(rows) ==
    \A i, j \in 1..Len(rows) : i # j => rows[i].elem_name # rows[j].elem_name

\* the summaries of up to n rows over the elements
SummariesOf(elements, n) ==
    { DataFrame(rows) :
        rows \in { r \in SeqsOf({ RowOf(e, cp) : e \in elements, cp \in CurrentAndPrior },
                                0, n) : HasDistinctElements(r) } }

Thresholds == { Num(0, 1), Num(1, 5), Num(1, 4) }

SignificantInit ==
    /\ pc = "start"
    /\ module_state = ModuleAtImport
    /\ jobs = <<>>
    /\ summary_df \in SummariesOf(SignificantElements, MaxRows)
    /\ threshold \in Thresholds
    /\ significant_df = <<>>
    /\ margins_df = <<>>
    /\ df = <<>>
    /\ LocatorIdle
    /\ PeriodIdle
    /\ ExtractIdle
    /\ MainIdle

AnalyzeSignificantChanges ==
    /\ pc = "start"
    /\ significant_df' \in analyze_significant_changes(summary_df, threshold)
    /\ pc' = "analyze_significant_changes"
    /\ module_state' \in ModuleStateAfter("analyze_significant_changes", module_state)
    /\ UNCHANGED <<summary_df, threshold, margins_df, df,
                   locatorVars, periodVars, extractVars, mainVars, jobs>>

SignificantNext == AnalyzeSignificantChanges

SignificantSpec == SignificantInit /\ [][SignificantNext]_vars

-----------------------------------------------------------------------------
(* Summaries calculate_profit_margins is run on *)

MarginElements ==
    { <<"NetSales">>, <<"Revenue">>, <<"OperatingRevenue1">>,
      <<"OperatingIncome">>, <<"ProfitLoss">> }

\* current and prior value of a row
MarginCurrentAndPrior ==
    { <<Num(1000, 1), Num(800, 1)>>, <<Num(150, 1), Num(100, 1)>>,
      <<Num(100, 1), Num(300, 1)>>, <<Num(0, 1), Num(800, 1)>>,
      <<None, Num(800, 1)>>, <<Num(150, 1), None>>, <<Num(150, 1), Num(0, 1)>>,
      <<Num(300, 1), Num(300, 1)>> }

MarginSummaries ==
    { DataFrame(rows) :
        rows \in { r \in SeqsOf({ RowOf(e, cp) : e \in MarginElements,
                                                 cp \in MarginCurrentAndPrior },
                                0, MaxRows) : HasDistinctElements(r) } }

MarginInit ==
    /\ pc = "start"
    /\ module_state = ModuleAtImport
    /\ jobs = <<>>
    /\ summary_df \in MarginSummaries
    /\ threshold = None
    /\ significant_df = <<>>
    /\ margins_df = <<>>
    /\ df = <<>>
    /\ LocatorIdle
    /\ PeriodIdle
    /\ ExtractIdle
    /\ MainIdle

CalculateProfitMargins ==
    /\ pc = "start"
    /\ margins_df' = calculate_profit_margins(summary_df)
    /\ pc' = "calculate_profit_margins"
    /\ module_state' \in ModuleStateAfter("calculate_profit_margins", module_state)
    /\ UNCHANGED <<summary_df, threshold, significant_df, df,
                   locatorVars, periodVars, extractVars, mainVars, jobs>>

MarginNext == CalculateProfitMargins

MarginSpec == MarginInit /\ [][MarginNext]_vars

-----------------------------------------------------------------------------
(* Batches of filings main is run on *)

MaxBatch == 2
MaxRuns == 2

\* zip_name is made of the code and the company name of the entry (line 1244)
ZipNames == { "7203_A_xbrl.zip", "6758_B_xbrl.zip" }

\* what the archive behind xbrl_url is: analysed to the end, no zip archive,
\* without an eligible document, with a document that parses to no fact, with
\* a fact that makes the extractor raise, with a workbook that cannot be saved
FilingKinds ==
    { "analyzable", "corrupt", "no_document", "unparsable", "overflow", "unwritable" }

XbrlEntry == [zip_name : ZipNames, archive : FilingKinds]

MainInit ==
    /\ pc = "start"
    /\ module_state = ModuleAtImport
    /\ xbrl_entries \in SeqsOf(XbrlEntry, 0, MaxBatch)
    /\ files = [z \in ZipNames |-> Absent]
    /\ entry_no = 0
    /\ attempts = <<>>
    /\ total_xbrl = 0
    /\ total_analyzed = 0
    /\ runs = 0
    /\ jobs = <<>>
    /\ LocatorIdle
    /\ PeriodIdle
    /\ ExtractIdle
    /\ SummaryIdle
    /\ AnalyticsIdle

\* lines 1194-1233: a run of main, up to the loop over the entries
StartMain ==
    /\ pc \in { "start", "summary" }
    /\ runs < MaxRuns
    /\ runs' = runs + 1
    /\ entry_no' = 1
    /\ attempts' = <<>>
    /\ total_xbrl' = 0
    /\ total_analyzed' = 0
    /\ pc' = "main"
    /\ module_state' \in ModuleStateAfter("main", module_state)
    /\ UNCHANGED <<xbrl_entries, files,
                   locatorVars, periodVars, extractVars, summaryVars, analyticsVars, jobs>>

\* lines 1235-1272: the loop body for one entry
LoopBody ==
    /\ pc = "main"
    /\ entry_no <= Len(xbrl_entries)
    /\ LET entry  == xbrl_entries[entry_no]
           exists == files[entry.zip_name] # Absent
       IN  \E outcome \in DownloadOutcomes :
             LET dl     == IF exists THEN [ok |-> TRUE, file |-> files[entry.zip_name]]
                           ELSE download_xbrl_zip(outcome, entry.archive,
                                                  files[entry.zip_name])
                 raised == process_single_xbrl(dl.file)
             IN  /\ files' = [files EXCEPT ![entry.zip_name] = dl.file]
                 /\ total_xbrl' = IF ~exists /\ dl.ok THEN total_xbrl + 1 ELSE total_xbrl
                 /\ IF ~dl.ok
                    THEN /\ attempts' = Append(attempts, "download_failed")
                         /\ UNCHANGED total_analyzed
                         /\ pc' = "main"
                    ELSE IF raised = "none"
                    THEN /\ attempts' = Append(attempts, "analyzed")
                         /\ total_analyzed' = total_analyzed + 1
                         /\ pc' = "main"
                    ELSE /\ attempts' = Append(attempts, raised)
                         /\ UNCHANGED total_analyzed
                         /\ pc' = IF CaughtByMain(raised) THEN "main" ELSE "aborted"
    /\ entry_no' = entry_no + 1
    /\ module_state' \in ModuleStateAfter("process_single_xbrl", module_state)
    /\ UNCHANGED <<xbrl_entries, runs,
                   locatorVars, periodVars, extractVars, summaryVars, analyticsVars, jobs>>

\* lines 1274-1278: the final summary, after the last entry
Summary ==
    /\ pc = "main"
    /\ entry_no > Len(xbrl_entries)
    /\ pc' = "summary"
    /\ module_state' \in ModuleStateAfter("main", module_state)
    /\ UNCHANGED <<mainVars,
                   locatorVars, periodVars, extractVars, summaryVars, analyticsVars, jobs>>

MainNext == StartMain \/ LoopBody \/ Summary

MainSpec == MainInit /\ [][MainNext]_vars

\* a started run goes on: the loop and the summary are steps of one thread
MainFairSpec == MainSpec /\ WF_vars(LoopBody) /\ WF_vars(Summary)

-----------------------------------------------------------------------------
(* Filings the engine is run on at the same time *)

MaxJobElems == 1

Threads == { 1, 2 }

PriorYearDuration ==
    <<"P","r","i","o","r","Y","e","a","r","D","u","r","a","t","i","o","n">>

NextYearDuration ==
    <<"N","e","x","t","Y","e","a","r","D","u","r","a","t","i","o","n","_",
      "F","o","r","e","c","a","s","t","M","e","m","b","e","r">>

\* context ids of the current and the prior period, of a forecast, of no
\* period, and one written in the characters of the label of the current period
JobContextIds ==
    { CurrentYearDuration, PriorYearDuration, NextYearDuration, FilingDateInstant, Touki }

\* <tse-ed-t:SalesIFRS contextRef="PriorYearDuration">5</tse-ed-t:SalesIFRS>
RegularNamed(localname, context_ref) ==
    [ tag    |-> [namespace |-> JppfsNs, localname |-> localname],
      attrib |-> ( "contextRef" :> context_ref ),
      text   |-> <<"5">> ]

JobInlineElems ==
    { IxNamed(n, c) : n \in { <<"tse-ed-t", ":", "SalesIFRS">>,
                              <<"jppfs_cor", ":", "OperatingIncome">> },
                      c \in JobContextIds }

JobRegularElems ==
    { RegularNamed(n, c) : n \in { <<"SalesIFRS">>, <<"OperatingIncome">> },
                           c \in JobContextIds }

\* the filings handed to the engine, the document and its name: inline and
\* instance documents of up to MaxJobElems of the elements
FilingsOf(inline, regular) ==
    { [filename |-> InlineName, content |-> [context_elems |-> <<>>, elems |-> es]] :
         es \in SeqsOf(inline, 0, MaxJobElems) }
    \cup
    { [filename |-> RegularName, content |-> [context_elems |-> <<>>, elems |-> es]] :
         es \in SeqsOf(regular, 0, MaxJobElems) }

JobFilings == FilingsOf(JobInlineElems, JobRegularElems)

\* the filings of the other invocation: facts of the current period
OtherFilings ==
    FilingsOf({ e \in JobInlineElems : e.attrib["contextref"] = CurrentYearDuration },
              { e \in JobRegularElems : e.attrib["contextRef"] = CurrentYearDuration })

NewJob(filing) ==
    [ stage |-> "start", filename |-> filing.filename, content |-> filing.content,
      parsed_data |-> <<>>, summary_df |-> <<>> ]

JobsInit ==
    /\ pc = "start"
    /\ module_state = ModuleAtImport
    /\ jobs \in { <<NewJob(f), NewJob(g)>> : f \in JobFilings, g \in OtherFilings }
    /\ MainIdle
    /\ LocatorIdle
    /\ PeriodIdle
    /\ ExtractIdle
    /\ SummaryIdle
    /\ AnalyticsIdle

\* line 1154 in the invocation t
JobParse(t) ==
    /\ jobs[t].stage = "start"
    /\ jobs' = [jobs EXCEPT ![t] =
                  IF Raises(jobs[t].content, jobs[t].filename)
                  THEN [@ EXCEPT !.stage = "OverflowError"]
                  ELSE [@ EXCEPT !.stage = "parsed",
                                 !.parsed_data = parse_xbrl_content(jobs[t].content,
                                                                    jobs[t].filename)]]
    /\ module_state' \in ModuleStateAfter("parse_xbrl_content", module_state)
    /\ UNCHANGED <<pc, locatorVars, periodVars, extractVars, summaryVars, analyticsVars,
                   mainVars>>

\* line 1163 in the invocation t
JobSummary(t) ==
    /\ jobs[t].stage = "parsed"
    /\ jobs' = [jobs EXCEPT ![t] =
                  [@ EXCEPT !.stage = "summarized",
                            !.summary_df = build_financial_summary(jobs[t].parsed_data)]]
    /\ module_state' \in ModuleStateAfter("build_financial_summary", module_state)
    /\ UNCHANGED <<pc, locatorVars, periodVars, extractVars, summaryVars, analyticsVars,
                   mainVars>>

JobsNext == \E t \in Threads : JobParse(t) \/ JobSummary(t)

\* the invocations take their steps in any order
JobsSpec == JobsInit /\ [][JobsNext]_vars

-----------------------------------------------------------------------------
(* Properties of find_xbrl_instance_in_zip (LocatorSpec) *)

LocatorDone == pc = "find_xbrl_instance_in_zip"

IsDirectoryName(name) == EndsWith(Lower(name), S_slash)

\* a non-directory entry whose path contains 'summary' and whose name ends
\* in the inline-document extension, compared case-insensitively
IsSummaryInline(name) ==
    /\ ~IsDirectoryName(name)
    /\ Contains(Lower(name), S_summary)
    /\ IsInlineName(Lower(name))

\* the same with the 'attachment' marker
IsAttachmentInline(name) ==
    /\ ~IsDirectoryName(name)
    /\ Contains(Lower(name), S_attachment)
    /\ IsInlineName(Lower(name))

\* a non-directory entry with the plain instance-document extension
IsPlainInstance(name) == ~IsDirectoryName(name) /\ EndsWith(Lower(name), S_xbrl)

\* *-def.xml, *-pre.xml, *-cal.xml, *-lab.xml
IsSideFile(name) ==
    \E k \in { <<"d","e","f">>, <<"p","r","e">>, <<"c","a","l">>, <<"l","a","b">> } :
        EndsWith(Lower(name), <<"-">> \o k \o <<".","x","m","l">>)

EntryNamed(name) == CHOOSE i \in 1..Len(zip_entries) : zip_entries[i].name = name

\* C1: if some non-directory entry has 'summary' in its path and the inline
\* extension, the locator returns such a summary entry, whatever the sizes
\* of the other entries.
C1_SummaryEntryReturned ==
    LocatorDone =>
        ((\E i \in 1..Len(zip_entries) : IsSummaryInline(zip_entries[i].name))
            => located.found /\ IsSummaryInline(located.name))

\* C2: the returned entry has maximal byte size among the entries of the
\* list (category) it was selected from.
C2_LargestOfItsList ==
    (LocatorDone /\ located.found) =>
        \A i \in 1..Len(zip_entries) :
            ListOf(zip_entries[i].name) = ListOf(located.name)
                => zip_entries[i].file_size
                     <= zip_entries[EntryNamed(located.name)].file_size

\* C2 witness: the returned entry is not the first of its list in archive
\* order, and a strictly smaller entry of the same list precedes it.
C2_Witness ==
    /\ LocatorDone /\ located.found
    /\ \E i \in 1..Len(zip_entries) :
         /\ i < EntryNamed(located.name)
         /\ ListOf(zip_entries[i].name) = ListOf(located.name)
         /\ zip_entries[i].file_size
              < zip_entries[EntryNamed(located.name)].file_size

\* C3 as stated: with no summary-marked inline document, no
\* attachment-marked inline document and no .xbrl document in the archive,
\* the locator returns (None, None).
C3_NotFoundWithoutCategory ==
    LocatorDone =>
        ((\A i \in 1..Len(zip_entries) :
             /\ ~IsSummaryInline(zip_entries[i].name)
             /\ ~IsAttachmentInline(zip_entries[i].name)
             /\ ~IsPlainInstance(zip_entries[i].name))
            => located = NotFound)

\* C3 as amended: with no non-directory entry ending in the inline
\* extension (marked or not) or in .xbrl, the locator returns (None, None);
\* what it returns is an entry of the archive, never a directory entry or a
\* side-file.
C3_NotFoundWithoutDocument ==
    LocatorDone =>
        /\ (\A i \in 1..Len(zip_entries) :
               \/ IsDirectoryName(zip_entries[i].name)
               \/ /\ ~IsInlineName(Lower(zip_entries[i].name))
                  /\ ~EndsWith(Lower(zip_entries[i].name), S_xbrl))
              => located = NotFound
        /\ located.found =>
              /\ \E i \in 1..Len(zip_entries) : zip_entries[i].name = located.name
              /\ ~IsDirectoryName(located.name)
              /\ ~IsSideFile(located.name)

\* C3 witness: an archive holding a directory entry and a side-file only,
\* for which the locator returned (None, None).
C3_Witness ==
    /\ LocatorDone /\ located = NotFound
    /\ \E i, j \in 1..Len(zip_entries) :
         IsDirectoryName(zip_entries[i].name) /\ IsSideFile(zip_entries[j].name)

-----------------------------------------------------------------------------
(* Properties of classify_period (PeriodSpec) *)

BothClassified == period_types[1].done /\ period_types[2].done

\* C8 as stated: two ids equal after case folding yield the same role,
\* whatever the context tables hold.
C8_SameRoleForFoldedIds ==
    (pc = "classify_period" /\ BothClassified
       /\ Lower(calls[1].context_ref) = Lower(calls[2].context_ref))
        => period_types[1].value = period_types[2].value

\* C8 as amended: two ids equal after case folding yield the same label
\* whatever the context tables hold, or else no rule matched either and each
\* invocation returned its own id unchanged.
C8_SameRoleOrOwnId ==
    (pc = "classify_period" /\ BothClassified
       /\ Lower(calls[1].context_ref) = Lower(calls[2].context_ref))
        => \/ period_types[1].value = period_types[2].value
           \/ /\ period_types[1].value = calls[1].context_ref
              /\ period_types[2].value = calls[2].context_ref
              /\ ~Contains(Lower(calls[1].context_ref), S_prior)
              /\ ~Contains(Lower(calls[1].context_ref), S_current)
              /\ ~Contains(Lower(calls[1].context_ref), S_forecast)
              /\ ~Contains(Lower(calls[1].context_ref), S_nextaccumulated)

\* C8 witness: two spellings of one id, one resolved in its table and one
\* not, classified with the same label.
C8_Witness ==
    /\ pc = "classify_period" /\ BothClassified
    /\ calls[1].context_ref # calls[2].context_ref
    /\ Lower(calls[1].context_ref) = Lower(calls[2].context_ref)
    /\ calls[1].context_ref \in DOMAIN calls[1].contexts
    /\ calls[2].context_ref \notin DOMAIN calls[2].contexts
    /\ period_types[1].value = Touki
    /\ period_types[2].value = Touki

\* The rules of C9 on a lower-cased id, each with the rules before it excluded.
C9_Rule1(cr) == Contains(cr, S_forecast) \/ Contains(cr, S_nextaccumulated)
C9_Rule2(cr) ==
    \/ StartsWith(cr, S_prior) \/ Contains(cr, S_prioryear)
    \/ Contains(cr, S_prior1year) \/ Contains(cr, S_prioraccumulated)
C9_Rule3(cr) == Contains(cr, S_priorquarter) \/ Contains(cr, S_prior1quarter)
C9_Rule4(cr) ==
    \/ StartsWith(cr, S_current) \/ Contains(cr, S_currentyear)
    \/ Contains(cr, S_currentaccumulated)

C9_RuleHolds(id, got) ==
    LET cr == Lower(id)
        inst == Contains(cr, S_instant)
    IN  /\ C9_Rule1(cr) => got = Yosou
        /\ (~C9_Rule1(cr) /\ C9_Rule2(cr))
              => got = (IF inst THEN ZenkiMatsu ELSE Zenki)
        /\ (~C9_Rule1(cr) /\ ~C9_Rule2(cr) /\ C9_Rule3(cr)) => got = ZenShihanki
        /\ (~C9_Rule1(cr) /\ ~C9_Rule2(cr) /\ ~C9_Rule3(cr) /\ C9_Rule4(cr))
              => got = (IF inst THEN ToukiMatsu ELSE Touki)
        /\ (~C9_Rule1(cr) /\ ~C9_Rule2(cr) /\ ~C9_Rule3(cr) /\ ~C9_Rule4(cr)
              /\ Contains(cr, S_prior))
              => got = (IF inst THEN ZenkiMatsu ELSE Zenki)
        /\ (~C9_Rule1(cr) /\ ~C9_Rule2(cr) /\ ~C9_Rule3(cr) /\ ~C9_Rule4(cr)
              /\ ~Contains(cr, S_prior) /\ Contains(cr, S_current))
              => got = (IF inst THEN ToukiMatsu ELSE Touki)
        /\ (~C9_Rule1(cr) /\ ~C9_Rule2(cr) /\ ~C9_Rule3(cr) /\ ~C9_Rule4(cr)
              /\ ~Contains(cr, S_prior) /\ ~Contains(cr, S_current))
              => got = id

\* C9: classify_period returns the result of the first matching rule in the
\* fixed order forecast, prior, prior quarter, current, loose prior, loose
\* current, and otherwise the original id unchanged.
C9_FirstMatchingRule ==
    \A k \in 1..Len(period_types) :
        period_types[k].done
            => C9_RuleHolds(calls[k].context_ref, period_types[k].value)

\* C9 witness: 'PriorAccumulatedQ3Instant' classified as prior period end.
C9_Witness ==
    \E k \in 1..Len(period_types) :
        /\ period_types[k].done
        /\ calls[k].context_ref
             = <<"P","r","i","o","r","A","c","c","u","m","u","l","a","t","e","d",
                 "Q","3","I","n","s","t","a","n","t">>
        /\ period_types[k].value = ZenkiMatsu

\* sub occurs in s at a position other than the first
ContainsAfterStart(s, sub) ==
    \E i \in 2..(Len(s) - Len(sub) + 1) : SubSeq(s, i, i + Len(sub) - 1) = sub

\* C29, its first half alone: an id that begins with 'prior' in any case and
\* contains neither 'forecast' nor 'nextaccumulated' is classified prior
\* period or prior period end, whatever else it contains.
C29_PriorLeadingNeverQuarter ==
    \A k \in 1..Len(period_types) :
        LET cr == Lower(calls[k].context_ref) IN
        (period_types[k].done /\ StartsWith(cr, S_prior) /\ ~C9_Rule1(cr))
            => period_types[k].value \in { Zenki, ZenkiMatsu }

\* C29: an id that begins with 'prior' in any case and contains neither
\* 'forecast' nor 'nextaccumulated' is classified prior period or prior period
\* end, never prior quarter; and the prior-quarter label is returned only for
\* ids that contain 'priorquarter' or 'prior1quarter' at a non-leading
\* position and none of 'prioryear', 'prior1year', 'prioraccumulated'.
C29_ReachOfPriorQuarter ==
    \A k \in 1..Len(period_types) :
        LET cr == Lower(calls[k].context_ref) IN
        period_types[k].done =>
          /\ (StartsWith(cr, S_prior) /\ ~C9_Rule1(cr))
                => period_types[k].value \in { Zenki, ZenkiMatsu }
          /\ period_types[k].value = ZenShihanki
                => /\ \/ ContainsAfterStart(cr, S_priorquarter)
                      \/ ContainsAfterStart(cr, S_prior1quarter)
                   /\ ~Contains(cr, S_prioryear)
                   /\ ~Contains(cr, S_prior1year)
                   /\ ~Contains(cr, S_prioraccumulated)

-----------------------------------------------------------------------------
(* Properties of the numeric decode (ExtractSpec) *)

ExtractDone == pc = "parse_xbrl_content"

\* the document holds one element, a fact with its name and context id
OneFactElement == ExtractDone /\ Len(content.elems) = 1

TheElem == content.elems[1]

\* an ix:nonfraction element of an inline document
IsInlineNumeric ==
    /\ OneFactElement
    /\ filename = InlineName
    /\ TheElem.tag = [namespace |-> InlineNs, localname |-> <<"ix:nonfraction">>]
    /\ Get(TheElem, "name", <<>>) # <<>>
    /\ Get(TheElem, "contextref", <<>>) # <<>>

\* no sign attribute, and no scale attribute or scale="0"
NoSignNoScale ==
    /\ "sign" \notin DOMAIN TheElem.attrib
    /\ "scale" \in DOMAIN TheElem.attrib => TheElem.attrib["scale"] = <<"0">>

IsFullwidthDigit(c) == \E i \in 1..10 : FullwidthDigits[i] = c
HalfwidthOf(c) == AsciiDigits[CHOOSE i \in 1..10 : FullwidthDigits[i] = c]
IsSeparator(c) == c \in { ",", FW_COMMA, " ", IDSP }

\* full-width digits among full-width or ASCII commas and spaces
IsFullwidthNumber(text) ==
    /\ \A i \in 1..Len(text) : IsFullwidthDigit(text[i]) \/ IsSeparator(text[i])
    /\ \E i \in 1..Len(text) : IsFullwidthDigit(text[i])

\* the same digits in half-width, every separator removed
HalfwidthDigits(text) ==
    LET ds == SelectSeq(text, IsFullwidthDigit)
    IN  [i \in 1..Len(ds) |-> HalfwidthOf(ds[i])]

\* C4: a nonFraction text of full-width digits, commas and spaces decodes
\* to the value of the same digits written in half-width without
\* separators.
C4_FullwidthEquivalence ==
    (IsInlineNumeric /\ NoSignNoScale /\ IsFullwidthNumber(TheElem.text)) =>
        /\ Len(parsed_data) = 1
        /\ parsed_data[1].value = Num(NatOf(HalfwidthDigits(TheElem.text)), 1)
        /\ parsed_data[1].value
             = IxbrlValue(<<"ix:nonfraction">>, HalfwidthDigits(TheElem.text),
                          <<>>, <<"0">>).value

\* C4 witness: a full-width "1" with a full-width comma and an ideographic
\* space decoded to 1.
C4_Witness ==
    /\ IsInlineNumeric /\ NoSignNoScale
    /\ \E i, j, k \in 1..Len(TheElem.text) :
          /\ TheElem.text[i] = FW_COMMA
          /\ TheElem.text[j] = IDSP
          /\ TheElem.text[k] = "U+FF11"
    /\ IsFullwidthNumber(TheElem.text)
    /\ Len(parsed_data) = 1
    /\ parsed_data[1].value = Num(1, 1)

\* digits with optional thousands separators between them
IsUnsignedNumber(t) ==
    /\ t # <<>>
    /\ \A i \in 1..Len(t) : IsAsciiDigit(t[i]) \/ t[i] \in { ",", FW_COMMA }
    /\ IsAsciiDigit(t[1]) /\ IsAsciiDigit(t[Len(t)])

\* t of a text "(t)", of a white or black triangle followed by t; <<>> otherwise
NegatedPart(text) ==
    IF Len(text) >= 2 /\ text[1] = "(" /\ text[Len(text)] = ")"
    THEN SubSeq(text, 2, Len(text) - 1)
    ELSE IF text # <<>> /\ text[1] \in { TRI_WHITE, TRI_BLACK } THEN Tail(text)
    ELSE <<>>

\* a numeric fact of either extractor, with no sign or scale attribute
IsPlainNumeric ==
    \/ IsInlineNumeric /\ NoSignNoScale
    \/ OneFactElement /\ filename = RegularName

\* C5: "(t)", a white triangle before t and a black triangle before t
\* decode to minus the value of the unsigned number t, in _parse_ixbrl and
\* in _parse_regular_xbrl.
C5_NegativeNotations ==
    (IsPlainNumeric /\ IsUnsignedNumber(NegatedPart(TheElem.text))) =>
        /\ Len(parsed_data) = 1
        /\ parsed_data[1].value
             = Num(-NatOf(SelectSeq(NegatedPart(TheElem.text), IsAsciiDigit)), 1)

\* C5 witness: the black triangle before "1,0" decoded to -10 by the inline
\* extractor.
C5_Witness ==
    /\ IsInlineNumeric /\ NoSignNoScale
    /\ TheElem.text = <<TRI_BLACK, "1", ",", "0">>
    /\ Len(parsed_data) = 1
    /\ parsed_data[1].value = Num(-10, 1)

\* the integer a scale attribute of the documents writes; 0 when absent
ScaleWritten(attrib) ==
    IF "scale" \notin DOMAIN attrib THEN 0
    ELSE IF attrib["scale"] = <<"6">> THEN 6
    ELSE IF attrib["scale"] = <<"-","2">> THEN -2
    ELSE 0

ScaleIsInteger(attrib) ==
    "scale" \in DOMAIN attrib => attrib["scale"] \in { <<"0">>, <<"6">>, <<"-","2">> }

\* v * 10^k
TimesPow10(v, k) ==
    IF k >= 0 THEN Num(v.n * Pow10(k), v.d) ELSE Num(v.n, v.d * Pow10(-k))

\* what the text alone decodes to: [skip, value]
TextDecoded == IxbrlValue(<<"ix:nonfraction">>, Strip(TheElem.text), <<>>, <<"0">>)

\* C6: with the text decoding to v, the emitted value is v * 10^scale for
\* an integer scale (v for scale absent or 0), and -|v| * 10^scale, never
\* positive, when sign="-".
C6_SignAndScale ==
    (IsInlineNumeric /\ ~TextDecoded.skip /\ ~TextDecoded.value.isnone
       /\ ScaleIsInteger(TheElem.attrib)) =>
        LET v  == TextDecoded.value
            sv == IF "sign" \in DOMAIN TheElem.attrib /\ TheElem.attrib["sign"] = <<"-">>
                  THEN Num(-Abs(v.n), v.d)
                  ELSE v
        IN  /\ Len(parsed_data) = 1
            /\ parsed_data[1].value = TimesPow10(sv, ScaleWritten(TheElem.attrib))
            /\ ("sign" \in DOMAIN TheElem.attrib /\ TheElem.attrib["sign"] = <<"-">>)
                  => parsed_data[1].value.n <= 0

\* C6 witness: text "-5" with sign="-" and scale="-2" emitted as -0.05.
C6_Witness ==
    /\ IsInlineNumeric
    /\ TheElem.text = <<"-","5">>
    /\ "sign" \in DOMAIN TheElem.attrib /\ TheElem.attrib["sign"] = <<"-">>
    /\ "scale" \in DOMAIN TheElem.attrib /\ TheElem.attrib["scale"] = <<"-","2">>
    /\ Len(parsed_data) = 1
    /\ parsed_data[1].value = [isnone |-> FALSE, n |-> -1, d |-> 20]

\* the text without separators and spaces
Remainder(text) == SelectSeq(text, LAMBDA c : ~IsSeparator(c))

\* C7: a nonFraction fact whose text, separators and spaces removed, is a
\* bare dash, em dash or en dash yields no fact.
C7_BareDashSkipped ==
    (IsInlineNumeric
       /\ Remainder(TheElem.text) \in { <<"-">>, <<EM_DASH>>, <<EN_DASH>> })
        => parsed_data = <<>>

-----------------------------------------------------------------------------
(* Properties of build_financial_summary (SummarySpec) *)

SummaryDone == pc = "build_financial_summary"

\* C10: in every row, change and rate are present exactly when current and
\* prior are present and prior is not 0; then change = current - prior and
\* rate = change / |prior|.
C10_ChangeAndRate ==
    SummaryDone =>
      \A i \in 1..Len(summary_df) :
        LET r  == summary_df[i]
            c  == r.current_val
            p  == r.prior_val
            defined == NotNa(c) /\ NotNa(p) /\ p.n # 0
        IN  /\ NotNa(r.change) <=> defined
            /\ NotNa(r.change_rate) <=> defined
            /\ defined =>
                 /\ r.change.d > 0 /\ r.change_rate.d > 0
                 /\ r.change.n * (c.d * p.d) = (c.n * p.d - p.n * c.d) * r.change.d
                 /\ r.change_rate.n * Abs(p.n) * r.change.d
                      = r.change.n * p.d * r.change_rate.d

\* C10 witness: NetSales 100 in the current period and 80 in the prior one
\* gives change 20 and rate 1/4.
C10_Witness ==
    /\ SummaryDone
    /\ df = << [element |-> <<"NetSales">>, period_type |-> Touki, value |-> Num(100, 1)],
               [element |-> <<"NetSales">>, period_type |-> Zenki, value |-> Num(80, 1)] >>
    /\ Len(summary_df) = 1
    /\ summary_df[1].change = Num(20, 1)
    /\ summary_df[1].change_rate = [isnone |-> FALSE, n |-> 1, d |-> 4]

\* the numeric facts of df with the element and a role of the types, in order
NumericFactsOf(elem_name, types) ==
    SelectSeq(df, LAMBDA f : /\ f.element = elem_name
                             /\ ~f.value.isnone
                             /\ f.period_type \in types)

\* C11: the current (prior) value of a row is the value of the first numeric
\* fact of its element with a current-type (prior-type) role, and absent
\* without such a fact; a later fact of the same role never replaces it.
C11_FirstWins ==
    SummaryDone =>
      \A i \in 1..Len(summary_df) :
        LET r == summary_df[i]
            cs == NumericFactsOf(r.elem_name, {Touki, ToukiMatsu, TouShihanki})
            ps == NumericFactsOf(r.elem_name, {Zenki, ZenkiMatsu, ZenShihanki})
        IN  /\ IF cs = <<>> THEN ~NotNa(r.current_val) ELSE r.current_val = cs[1].value
            /\ IF ps = <<>> THEN ~NotNa(r.prior_val) ELSE r.prior_val = ps[1].value
            /\ \A j \in 1..Len(summary_df) : j # i => summary_df[j].elem_name # r.elem_name

\* C11 witness: two current-type facts of NetSales, 100 before 80; the row
\* holds 100.
C11_Witness ==
    /\ SummaryDone
    /\ Len(df) = 2
    /\ df[1].element = <<"NetSales">> /\ df[2].element = <<"NetSales">>
    /\ df[1].period_type = Touki /\ df[2].period_type = ToukiMatsu
    /\ df[1].value = Num(100, 1) /\ df[2].value = Num(80, 1)
    /\ Len(summary_df) = 1
    /\ summary_df[1].current_val = Num(100, 1)

-----------------------------------------------------------------------------
(* Properties of analyze_significant_changes (SignificantSpec) *)

SignificantDone == pc = "analyze_significant_changes"

\* the row is one of the sequence
IsRowOf(r, rows) == \E i \in 1..Len(rows) : rows[i] = r

\* |rate| >= threshold, for a defined rate
ReachesThreshold(r) ==
    /\ ~r.change_rate.isnone /\ r.change_rate.d > 0
    /\ Abs(r.change_rate.n) * threshold.d >= threshold.n * r.change_rate.d

\* C12: the result holds exactly the input rows whose rate is defined with
\* |rate| >= threshold, each once and unmodified.
C12_InclusiveThreshold ==
    SignificantDone =>
      /\ \A i \in 1..Len(significant_df) :
            /\ IsRowOf(significant_df[i], summary_df)
            /\ ReachesThreshold(significant_df[i])
            /\ \A j \in 1..Len(significant_df) :
                  j # i => significant_df[j] # significant_df[i]
      /\ \A i \in 1..Len(summary_df) :
            ReachesThreshold(summary_df[i]) => IsRowOf(summary_df[i], significant_df)

\* C12 witness: at threshold 1/5 a row of rate -1/5 is returned and a row
\* without a rate is left out.
C12_Witness ==
    /\ SignificantDone
    /\ threshold = [isnone |-> FALSE, n |-> 1, d |-> 5]
    /\ \E i \in 1..Len(significant_df) :
          significant_df[i].change_rate = [isnone |-> FALSE, n |-> -1, d |-> 5]
    /\ \E i \in 1..Len(summary_df) : ~NotNa(summary_df[i].change_rate)
    /\ Len(significant_df) < Len(summary_df)

\* the position of the row in the sequence
PositionIn(r, rows) == CHOOSE i \in 1..Len(rows) : rows[i] = r

\* C13: the returned rows are in descending order of |rate|, and rows of
\* equal |rate| keep the relative order they have in the input.
C13_StableDescending ==
    SignificantDone =>
      \A i, j \in 1..Len(significant_df) :
        i < j =>
          LET a == significant_df[i].change_rate
              b == significant_df[j].change_rate
          IN  /\ Abs(a.n) * b.d >= Abs(b.n) * a.d
              /\ (Abs(a.n) * b.d = Abs(b.n) * a.d) =>
                    PositionIn(significant_df[i], summary_df)
                       < PositionIn(significant_df[j], summary_df)

-----------------------------------------------------------------------------
(* Properties of calculate_profit_margins (MarginSpec) *)

MarginDone == pc = "calculate_profit_margins"

\* the row of the element in summary_df, <<>> without one
SummaryRowOf(elem) == SelectSeq(summary_df, LAMBDA r : r.elem_name = elem)

\* a row with a current value that is present and not 0
Qualifies(elem) ==
    /\ SummaryRowOf(elem) # <<>>
    /\ NotNa(SummaryRowOf(elem)[1].current_val)
    /\ SummaryRowOf(elem)[1].current_val.n # 0

AnchorCandidates == << <<"NetSales">>, <<"Revenue">>, <<"OperatingRevenue1">> >>

SomeQualifies == \E i \in 1..3 : Qualifies(AnchorCandidates[i])

\* the row of the first candidate that qualifies
AnchorRow ==
    SummaryRowOf(AnchorCandidates[
        CHOOSE i \in 1..3 : /\ Qualifies(AnchorCandidates[i])
                            /\ \A j \in 1..(i - 1) : ~Qualifies(AnchorCandidates[j])])[1]

\* the tracked numerator elements with the names of their results
TrackedItems == 1..Len(margin_items)

ResultsNamed(name) == SelectSeq(margins_df, LAMBDA m : m.margin_name = name)

\* numerator / denominator * 100, for a denominator other than 0
Percent(numerator, denominator) ==
    IF denominator.n > 0
    THEN Num(100 * numerator.n * denominator.d, numerator.d * denominator.n)
    ELSE Num(-(100 * numerator.n * denominator.d), numerator.d * (-denominator.n))

\* x is within half a hundredth of y
IsRoundingOf(x, y) ==
    /\ NotNa(x)
    /\ 200 * Abs(x.n * y.d - y.n * x.d) <= x.d * y.d

\* C14: the denominators are the current and prior value of the first of
\* NetSales, Revenue, OperatingRevenue1 whose row has a current value that is
\* present and not 0: each percentage returned is, up to its rounding, the
\* numerator over that row's value.
C14_FirstQualifyingAnchor ==
    (MarginDone /\ SomeQualifies) =>
      \A k \in TrackedItems :
        LET rows == SummaryRowOf(margin_items[k][2])
            res  == ResultsNamed(margin_items[k][1])
        IN  rows # <<>> =>
              /\ Len(res) = 1
              /\ NotNa(rows[1].current_val) =>
                    IsRoundingOf(res[1].curr_margin,
                                 Percent(rows[1].current_val, AnchorRow.current_val))
              /\ (NotNa(rows[1].prior_val) /\ NotNa(AnchorRow.prior_val)
                    /\ AnchorRow.prior_val.n # 0) =>
                    IsRoundingOf(res[1].prev_margin,
                                 Percent(rows[1].prior_val, AnchorRow.prior_val))

\* C15: with an anchor, each tracked numerator with a row has exactly one
\* result, current% = numerator.current / revenue.current * 100, prior% =
\* numerator.prior / revenue.prior * 100 when revenue.prior is present and
\* not 0, diff = current% - prior% when both are defined; a numerator
\* without a row has no result.
C15_MarginFormula ==
    (MarginDone /\ SomeQualifies) =>
      \A k \in TrackedItems :
        LET rows == SummaryRowOf(margin_items[k][2])
            res  == ResultsNamed(margin_items[k][1])
            hasCurr == NotNa(rows[1].current_val)
            hasPrev == /\ NotNa(rows[1].prior_val)
                       /\ NotNa(AnchorRow.prior_val)
                       /\ AnchorRow.prior_val.n # 0
        IN  IF rows = <<>> THEN res = <<>>
            ELSE
              /\ Len(res) = 1
              /\ IF hasCurr
                 THEN res[1].curr_margin = Percent(rows[1].current_val, AnchorRow.current_val)
                 ELSE ~NotNa(res[1].curr_margin)
              /\ IF hasPrev
                 THEN res[1].prev_margin = Percent(rows[1].prior_val, AnchorRow.prior_val)
                 ELSE ~NotNa(res[1].prev_margin)
              /\ IF hasCurr /\ hasPrev
                 THEN /\ NotNa(res[1].diff)
                      /\ res[1].diff = Minus(res[1].curr_margin, res[1].prev_margin)
                 ELSE ~NotNa(res[1].diff)

\* C16: when none of NetSales, Revenue, OperatingRevenue1 has a row with a
\* current value that is present and not 0, the result is empty.
C16_EmptyWithoutAnchor ==
    (MarginDone /\ ~SomeQualifies) => margins_df = <<>>

-----------------------------------------------------------------------------
(* Properties of the extractors' output (ExtractSpec) *)

IsInlineDocument == filename = InlineName

\* the context table of the document
ContextTable == parse_contexts(content.context_elems)

\* a fact carrier of an inline document with name, context id and text
IsInlineCarrier(e) ==
    /\ e.tag.namespace = <<>>
    /\ Lower(e.tag.localname) \in { <<"ix:nonfraction">>, <<"ix:nonnumeric">> }
    /\ Get(e, "name", <<>>) # <<>>
    /\ Get(e, "contextref", <<>>) # <<>>
    /\ Strip(e.text) # <<>>

\* a namespaced element of an instance document with context id and text
IsRegularCarrier(e) ==
    /\ e.tag.namespace # <<>>
    /\ "contextRef" \in DOMAIN e.attrib
    /\ Strip(e.text) # <<>>

IsCarrier(e) == IF IsInlineDocument THEN IsInlineCarrier(e) ELSE IsRegularCarrier(e)

\* the carrier's value is to be a number
IsNumericCarrier(e) ==
    IsInlineDocument => Lower(e.tag.localname) = <<"ix:nonfraction">>

\* an inline numeric carrier whose text is a dash or nothing once separators
\* are removed and triangles and parentheses are turned into a minus
IsDash(e) ==
    /\ IsInlineDocument
    /\ Lower(e.tag.localname) = <<"ix:nonfraction">>
    /\ CleanIxbrl(Strip(e.text)) \in { <<"-">>, <<FW_HYPHEN>>, <<HBAR>>, <<EM_DASH>>, <<>> }

IsEnDash(e) == IsInlineDocument /\ Remainder(Strip(e.text)) = <<EN_DASH>>

\* a numeric carrier whose text float() rejects
IsUndecodable(e) ==
    /\ IsNumericCarrier(e)
    /\ ~ParseFloat(IF IsInlineDocument THEN CleanIxbrl(Strip(e.text))
                   ELSE CleanRegular(Strip(e.text))).ok

ContextRefOf(e) ==
    IF IsInlineDocument THEN e.attrib["contextref"] ELSE e.attrib["contextRef"]

\* the carriers of the document, in document order
AllCarriers == SelectSeq(content.elems, IsCarrier)

\* the carriers other than the dashes
Carriers == SelectSeq(content.elems, LAMBDA e : IsCarrier(e) /\ ~IsDash(e))

\* the carriers other than the dashes and the texts float() rejects
DecodedCarriers ==
    SelectSeq(content.elems, LAMBDA e : IsCarrier(e) /\ ~IsDash(e) /\ ~IsUndecodable(e))

\* parsed_data holds one fact for each of the carriers, in their order
OutputIsOf(carriers) ==
    /\ Len(parsed_data) = Len(carriers)
    /\ \A i \in 1..Len(carriers) :
          /\ parsed_data[i].context_ref = ContextRefOf(carriers[i])
          /\ parsed_data[i].value_raw = Strip(carriers[i].text)

VendorNameOf(e) == SplitName(e.attrib["name"])[2]

\* C18: the element of an inline fact is TSE_ELEMENT_MAP[n] when its vendor
\* name n is a key of that map and n otherwise; its label is the
\* XBRL_LABEL_MAP entry of that element, the empty string without one.
C18_Canonicalization ==
    (ExtractDone /\ IsInlineDocument) =>
      /\ Len(parsed_data) = Len(Carriers)
      /\ \A i \in 1..Len(parsed_data) :
            LET n == VendorNameOf(Carriers[i])
                canonical == IF n \in DOMAIN TSE_ELEMENT_MAP THEN TSE_ELEMENT_MAP[n] ELSE n
            IN  /\ parsed_data[i].element = canonical
                /\ parsed_data[i].label_ja =
                      IF canonical \in DOMAIN XBRL_LABEL_MAP
                      THEN XBRL_LABEL_MAP[canonical] ELSE <<>>

\* C18 witness: the vendor name ChangeInSalesIFRS emitted as ChangeInNetSales,
\* which has no label.
C18_Witness ==
    /\ ExtractDone /\ IsInlineDocument
    /\ Len(content.elems) = 1
    /\ content.elems[1].attrib["name"] = <<"tse-ed-t", ":", "ChangeInSalesIFRS">>
    /\ Len(parsed_data) = 1
    /\ parsed_data[1].element = <<"ChangeInNetSales">>
    /\ parsed_data[1].label_ja = <<>>

\* C19 as stated: every fact holds the trimmed text of its carrier, and
\* every numeric carrier whose text is no number is in the output with that
\* text and no value.
C19_RawTextOfEveryCarrier ==
    ExtractDone =>
      /\ OutputIsOf(AllCarriers)
      /\ \A i \in 1..Len(AllCarriers) :
            (IsUndecodable(AllCarriers[i]) /\ i <= Len(parsed_data))
               => parsed_data[i].value = None

\* C19: every fact holds the trimmed text of its carrier, and every numeric
\* carrier whose text is no number, and not a dash or nothing but separators,
\* is in the output with that text and no value.
C19_RawTextCarried ==
    (ExtractDone /\ \A k \in 1..Len(content.elems) : ~IsEnDash(content.elems[k])) =>
      /\ OutputIsOf(Carriers)
      /\ \A i \in 1..Len(Carriers) :
            (IsUndecodable(Carriers[i]) /\ i <= Len(parsed_data))
               => parsed_data[i].value = None

\* C19 witness: an instance document whose element "(1" is in the output
\* with the text "(1" and no value.
C19_Witness ==
    /\ ExtractDone
    /\ filename = RegularName
    /\ Len(content.elems) = 1
    /\ content.elems[1].text = <<"(", "1">>
    /\ Len(parsed_data) = 1
    /\ parsed_data[1].value_raw = <<"(", "1">>
    /\ parsed_data[1].value = None

\* C20 as stated: an inline numeric carrier whose text is no number is not in
\* the output; the other carriers are.
C20_UndecodableDropped ==
    (ExtractDone /\ IsInlineDocument) => OutputIsOf(DecodedCarriers)

\* C20: an inline numeric carrier whose text is no number, and not a dash or
\* nothing but separators, is in the output without a value, and every
\* carrier after it is in the output as well.
C20_UndecodableKeptWithoutValue ==
    (ExtractDone /\ IsInlineDocument
       /\ \A k \in 1..Len(content.elems) : ~IsEnDash(content.elems[k])) =>
      \A i \in 1..Len(Carriers) :
        IsUndecodable(Carriers[i]) =>
          /\ Len(parsed_data) = Len(Carriers)
          /\ parsed_data[i].value = None
          /\ parsed_data[i].value_raw = Strip(Carriers[i].text)
          /\ \A j \in (i + 1)..Len(Carriers) :
                parsed_data[j].value_raw = Strip(Carriers[j].text)

\* C20 witness: the text "a" followed by the text "5": two facts, the first
\* without a value, the second with 5.
C20_Witness ==
    /\ ExtractDone /\ IsInlineDocument
    /\ Len(content.elems) = 2
    /\ content.elems[1].text = <<"a">>
    /\ content.elems[1].tag.localname = <<"ix:nonfraction">>
    /\ Len(parsed_data) = 2
    /\ parsed_data[1].value = None
    /\ parsed_data[1].value_raw = <<"a">>
    /\ parsed_data[2].value = Num(5, 1)

-----------------------------------------------------------------------------
(* Properties of the failure policy of the extractors (ExtractSpec) *)

\* C21: for every document and every text, sign and scale of its fact
\* elements, parse_xbrl_content returns a list: no call ends in an exception,
\* and every carrier that is not skipped as a dash is in the list, the ones
\* after an undecodable element included.
C21_NeverAborts ==
    pc # "start" => (ExtractDone /\ OutputIsOf(Carriers))

-----------------------------------------------------------------------------
(* Properties of main (MainFairSpec) *)

\* the loop body of this run ended for every entry of the batch
EveryEntryAttempted == Len(attempts) = Len(xbrl_entries)

\* C22: whatever fails for one filing (the download, a corrupt archive, no
\* eligible document, an unparsable document, an exception raised by the
\* analysis or the export), the run is never ended by it: every started run
\* reaches its final summary, and it has then attempted every entry of the
\* batch.
C22_BatchRecoverable ==
    /\ [](pc # "aborted")
    /\ [](pc = "summary" => EveryEntryAttempted)
    /\ (pc = "main") ~> (pc = "summary")

\* C22 witness: a run at its summary whose first entry ended in an exception
\* and whose second entry was analysed.
C22_Witness ==
    /\ pc = "summary"
    /\ Len(attempts) = 2
    /\ attempts[1] \in { "BadZipFile", "OverflowError", "PermissionError" }
    /\ attempts[2] = "analyzed"
    /\ total_analyzed = 1

-----------------------------------------------------------------------------
(* Properties of the downloads over several runs (MainSpec) *)

\* C30: a download that fails part-way leaves no file at its destination
\* path: no zip_path ever holds an archive cut short, so no run takes the
\* "file exists, skip the download" branch of line 1247 for one.
C30_NoStalePartialDownload ==
    \A z \in DOMAIN files : files[z] # Truncated

-----------------------------------------------------------------------------
(* Properties of the engine run on several filings at once (JobsSpec) *)

\* what parse_xbrl_content and build_financial_summary return for the filing
\* of the invocation t, computed with the tables as they are now
FactsAlone(t) == parse_xbrl_content(jobs[t].content, jobs[t].filename)
SummaryAlone(t) == build_financial_summary(FactsAlone(t))

MatchesNoRule(context_ref) ==
    LET cr == Lower(context_ref) IN
    /\ ~Contains(cr, S_forecast) /\ ~Contains(cr, S_nextaccumulated)
    /\ ~Contains(cr, S_prior) /\ ~Contains(cr, S_current)

\* a fact of the role Unknown or Forecast
IsUnknownOrForecast(fact) ==
    MatchesNoRule(fact.context_ref) \/ fact.period_type = Yosou

\* C27: a fact whose context id matches no rule (the role Unknown), or whose
\* role is Forecast, supplies no value of the summary: the summary of a
\* filing is the one built from its other facts, whatever the text of the
\* context id.
C27_UnknownAndForecastNeverFeed ==
    \A t \in Threads :
       jobs[t].stage = "summarized" =>
          jobs[t].summary_df =
             build_financial_summary(
                SelectSeq(jobs[t].parsed_data, LAMBDA f : ~IsUnknownOrForecast(f)))

-----------------------------------------------------------------------------
(* Properties of the rows of build_financial_summary (SummarySpec) *)

\* the roles that feed a comparison: Current, CurrentInstant, Prior,
\* PriorInstant, PriorQuarter
FeedingRoles == { Touki, ToukiMatsu, Zenki, ZenkiMatsu, ZenShihanki }

IsNumericFact(i) == ~df[i].value.isnone

\* the element has a numeric fact with a feeding role
HasFeedingFact(elem_name) ==
    \E i \in 1..Len(df) :
       df[i].element = elem_name /\ IsNumericFact(i) /\ df[i].period_type \in FeedingRoles

\* where the first numeric fact of the element is in df
FirstNumericFact(elem_name) ==
    CHOOSE i \in 1..Len(df) :
       /\ df[i].element = elem_name /\ IsNumericFact(i)
       /\ \A j \in 1..(i - 1) : ~(df[j].element = elem_name /\ IsNumericFact(j))

\* C24: the summary has exactly one row for each element with a numeric fact
\* of a current-type or prior-type role and no other row (none for an element
\* whose facts are all non-numeric, Forecast or Unknown), and the rows are in
\* the order of the first numeric facts of their elements.
C24_RowSet ==
    SummaryDone =>
      /\ \A i \in 1..Len(summary_df) : HasFeedingFact(summary_df[i].elem_name)
      /\ \A k \in 1..Len(df) :
            HasFeedingFact(df[k].element) =>
               \E i \in 1..Len(summary_df) : summary_df[i].elem_name = df[k].element
      /\ \A i, j \in 1..Len(summary_df) :
            i < j => /\ summary_df[i].elem_name # summary_df[j].elem_name
                     /\ FirstNumericFact(summary_df[i].elem_name)
                          < FirstNumericFact(summary_df[j].elem_name)

\* C24 witness: a prior-quarter fact of NetSales before an Unknown fact of
\* NumberOfEmployees: one row, for NetSales.
C24_Witness ==
    /\ SummaryDone
    /\ Len(df) = 2
    /\ df[1].element = <<"NetSales">> /\ df[1].period_type = ZenShihanki
    /\ df[2].element = <<"NumberOfEmployees">> /\ df[2].period_type = FilingDateInstant
    /\ IsNumericFact(1) /\ IsNumericFact(2)
    /\ Len(summary_df) = 1
    /\ summary_df[1].elem_name = <<"NetSales">>

\* C25 as stated: the label of a row is the XBRL_LABEL_MAP entry of its
\* element, and the empty string for an element without an entry.
C25_LabelOrEmpty ==
    SummaryDone =>
      \A i \in 1..Len(summary_df) :
         summary_df[i].label =
            IF summary_df[i].elem_name \in DOMAIN LabelMapAtImport
            THEN LabelMapAtImport[summary_df[i].elem_name]
            ELSE <<>>

\* C25: the label of a row is the XBRL_LABEL_MAP entry of its element, and
\* the element name itself for an element without an entry.
C25_LabelOrElementName ==
    SummaryDone =>
      \A i \in 1..Len(summary_df) :
         summary_df[i].label =
            IF summary_df[i].elem_name \in DOMAIN LabelMapAtImport
            THEN LabelMapAtImport[summary_df[i].elem_name]
            ELSE summary_df[i].elem_name

\* C25 witness: a row of NetSales with its label and a row of
\* NumberOfEmployees, which has no entry, labelled NumberOfEmployees.
C25_Witness ==
    /\ SummaryDone
    /\ Len(summary_df) = 2
    /\ summary_df[1].elem_name = <<"NetSales">>
    /\ summary_df[1].label = <<"U+58F2","U+4E0A","U+9AD8">>
    /\ summary_df[2].elem_name = <<"NumberOfEmployees">>
    /\ summary_df[2].label = <<"NumberOfEmployees">>

-----------------------------------------------------------------------------
(* Properties of the records of calculate_profit_margins (MarginSpec) *)

\* C26: in every record in which both percentages are defined, the reported
\* difference is the reported current percentage minus the reported prior
\* percentage.
C26_ConsistentRecord ==
    MarginDone =>
      \A i \in 1..Len(margins_df) :
         (NotNa(margins_df[i].curr_margin) /\ NotNa(margins_df[i].prev_margin)) =>
            /\ NotNa(margins_df[i].diff)
            /\ margins_df[i].diff
                  = Minus(margins_df[i].curr_margin, margins_df[i].prev_margin)

-----------------------------------------------------------------------------
(* Properties of the two extractors on one vendor name (JobsSpec) *)

\* the vendor element name of the one element of the filing of invocation t:
\* the name attribute after its prefix in an inline document, the local name
\* of the tag in an instance document
JobVendorName(t) ==
    LET elem == jobs[t].content.elems[1] IN
    IF jobs[t].filename = InlineName
    THEN SplitName(Get(elem, "name", <<>>))[2]
    ELSE elem.tag.localname

\* C28: for the same vendor element name the inline extractor and the
\* instance-document extractor emit the same element name and the same
\* label.
C28_OneOutputContract ==
    \A t \in Threads : \A u \in Threads :
        ( /\ jobs[t].filename = InlineName /\ jobs[u].filename = RegularName
          /\ Len(jobs[t].parsed_data) = 1 /\ Len(jobs[u].parsed_data) = 1
          /\ JobVendorName(t) = JobVendorName(u) )
        => /\ jobs[t].parsed_data[1].element = jobs[u].parsed_data[1].element
           /\ jobs[t].parsed_data[1].label_ja = jobs[u].parsed_data[1].label_ja

====
